---- MODULE Spec2Model ----
(***************************************************************************)
(* A model of the cognitive-task backend: the stimulus generators of       *)
(* main.py and geometry_utils.py (peel generator, convex polygon           *)
(* generator, maze corridor generator) and the shape metrics of            *)
(* geometry_utils.py and scoring.py.                                       *)
(*                                                                         *)
(* Numbers.  Coordinates of the unit box are fixed-point integers: the     *)
(* peel generator works in hundredths (0.08 is 8); the corridor, the       *)
(* convex generator and the metrics work in units of 1/10000 (Scale), and  *)
(* angles are in units of 1/10000 radian.  Products are rescaled with      *)
(* MulFix, square roots are integer square roots, and the cosine and sine  *)
(* are evaluated by their power series.  Point indices are 1-based here    *)
(* and 0-based in the source.                                              *)
(*                                                                         *)
(* Randomness.  The source draws from two process-wide generators, the     *)
(* numpy legacy generator (np.random) and the generator of the Python     *)
(* random module (random).  Each is a deterministic state machine: a     *)
(* seed call sets its state, a draw advances the state and returns a       *)
(* function of it.  Here each is a 16-bit linear congruential generator    *)
(* held in a variable (np_rng, py_rng) that every call of the process      *)
(* reads and writes, as in the source.                                     *)
(***************************************************************************)
EXTENDS Integers, Sequences, FiniteSets, TLC

VARIABLES
    np_rng,         \* state of the numpy global generator
    py_rng,         \* state of the global generator of the random module
    gen,            \* the generator that is called
    pc,             \* position of the running call
    round,          \* 1 for the first call, 2 for the repeated call
    first_out,      \* what the first call returned ("none" before)
    out,            \* what the running call returned ("none" before)
    \* generate_polygon / generate_concave_hull_peeling
    req,            \* the GenerateRequest
    hash_order,     \* iteration order of the set of boundary edges
    pts,            \* sampled points
    simplices,      \* triangle array of the Delaunay mesh
    active_mask,    \* active flag per triangle
    iter,           \* iterations of the peel loop so far
    current_boundary_len,
    loop_exit,      \* why the peel loop ended
    adj,            \* adjacency lists of the final boundary
    path,           \* chained boundary
    prev,
    curr,
    hops,           \* iterations of the chaining loop so far
    chain_end,      \* why the chaining loop ended
    \* generate_convex_polygon
    cv_req,         \* n_vertices and seed
    attempts,       \* iterations of the oversampling loop so far
    \* generate_maze_corridor
    mz_req,         \* segments and width
    angle,
    curr_x,
    curr_y,
    mz_path,        \* centerline so far
    \* two concurrent calls of sample_points_in_box
    th_req,         \* per thread: the arguments n and seed
    th_pc,          \* per thread: position in the call
    th_points,      \* per thread: the local list points
    th_x,           \* per thread: the local x
    th_attempt,     \* per thread: the local attempt
    \* the Hausdorff metrics
    set_a,          \* first point list
    set_b,          \* second point list
    d_geo,          \* result of compute_hausdorff_distance
    d_sco,          \* result of calculate_hausdorff_distance
    \* compute_vertex_order_similarity
    submitted_order,
    other_order,    \* a second submission for the same true order
    true_order,
    similarity,     \* result for submitted_order
    other_similarity, \* result for other_order
    \* the scoring functions
    task_points,    \* the point list of the task
    submissions,    \* the user's click sequence
    args,           \* the remaining arguments of the call
    results,        \* the list of result records of the aggregator
    score_out       \* what the call returned

rngVars == <<np_rng, py_rng>>
callVars == <<gen, pc, round, first_out, out>>
peelVars == <<req, hash_order, pts, simplices, active_mask, iter,
              current_boundary_len, loop_exit, adj, path, prev, curr, hops,
              chain_end>>
convexVars == <<cv_req, attempts>>
mazeVars == <<mz_req, angle, curr_x, curr_y, mz_path>>
concVars == <<th_req, th_pc, th_points, th_x, th_attempt>>
metricVars == <<set_a, set_b, d_geo, d_sco>>
orderVars == <<submitted_order, other_order, true_order, similarity,
               other_similarity>>
taskVars == <<task_points, submissions, args, results, score_out>>
scoringVars == <<orderVars, taskVars>>
vars == <<rngVars, callVars, peelVars, convexVars, mazeVars, concVars,
          metricVars, scoringVars>>

\* what the calls of one generator leave alone
notPeelVars == <<convexVars, mazeVars, concVars, metricVars,
                  scoringVars>>
notConvexVars == <<peelVars, mazeVars, concVars, metricVars,
                  scoringVars>>
notMazeVars == <<peelVars, convexVars, concVars, metricVars,
                  scoringVars>>
notConcVars == <<peelVars, convexVars, mazeVars, metricVars,
                  scoringVars>>
notMetricVars == <<peelVars, convexVars, mazeVars, concVars,
                  scoringVars>>
notScoringVars == <<peelVars, convexVars, mazeVars, concVars, metricVars>>

\* None, where the source has an optional integer
None == -1

Max(a, b) == IF a >= b THEN a ELSE b
Min(a, b) == IF a <= b THEN a ELSE b
Abs(a) == IF a >= 0 THEN a ELSE -a

RECURSIVE SortInts(_)
SortInts(S) ==
    IF S = {} THEN <<>>
    ELSE LET m == CHOOSE x \in S : \A y \in S : x <= y
         IN <<m>> \o SortInts(S \ {m})

Reverse(s) == [i \in 1..Len(s) |-> s[Len(s) + 1 - i]]

Range(s) == {s[i] : i \in 1..Len(s)}

(***************************************************************************)
(* The random number generators.                                           *)
(***************************************************************************)
\* seed(seed): the state is a function of the seed alone
RngSeed(seed) == seed % 65536

\* one draw advances the state
RngNext(s) == (25173 * s + 13849) % 65536

\* uniform(lo, hi) read off the state reached by the draw: lo <= result < hi
Uniform(s, lo, hi) == lo + ((hi - lo) * (s \div 256)) \div 256

\* randint(k) read off the state reached by the draw: 0 <= result < k
Randint(s, k) == ((s \div 256) * k) \div 256

(***************************************************************************)
(* sample_points_in_box: rejection sampling with a minimum distance.       *)
(***************************************************************************)
MinDistance == 8
MaxAttempts == 100
BoxLo == 0
BoxHi == 100

DistSq(p, q) == (p[1] - q[1]) * (p[1] - q[1]) + (p[2] - q[2]) * (p[2] - q[2])

\* np.all(dists >= min_distance)
FarEnough(points, p) ==
    \A i \in 1..Len(points) : DistSq(points[i], p) >= MinDistance * MinDistance

\* the inner loop over attempts for one point
RECURSIVE SampleAttempts(_, _, _)
SampleAttempts(points, s, attempt) ==
    LET s1 == RngNext(s)
        x == Uniform(s1, BoxLo, BoxHi)
        s2 == RngNext(s1)
        y == Uniform(s2, BoxLo, BoxHi)
    IN IF points = <<>> \/ FarEnough(points, <<x, y>>)
          THEN [points |-> Append(points, <<x, y>>), rng |-> s2]
          ELSE IF attempt + 1 >= MaxAttempts
                  THEN [points |-> Append(points, <<x, y>>), rng |-> s2]
                  ELSE SampleAttempts(points, s2, attempt + 1)

RECURSIVE SampleLoop(_, _, _)
SampleLoop(n, points, s) ==
    IF Len(points) >= n THEN [points |-> points, rng |-> s]
    ELSE LET r == SampleAttempts(points, s, 0)
         IN SampleLoop(n, r.points, r.rng)

\* sample_points_in_box(n, bbox, seed) run on generator state s:
\* the sampled points and the generator state it leaves
sample_points_in_box(n, seed, s) ==
    SampleLoop(n, <<>>, IF seed # None THEN RngSeed(seed) ELSE s)

(***************************************************************************)
(* The geometry kernel: Delaunay triangulation (scipy.spatial.Delaunay).   *)
(* A triangle belongs to the triangulation when no other point lies        *)
(* strictly inside its circumcircle.                                       *)
(***************************************************************************)
Cross(a, b, c) == (b[1] - a[1]) * (c[2] - a[2]) - (b[2] - a[2]) * (c[1] - a[1])

InCircleDet(a, b, c, d) ==
    LET ax == a[1] - d[1]  ay == a[2] - d[2]
        bx == b[1] - d[1]  by == b[2] - d[2]
        cx == c[1] - d[1]  cy == c[2] - d[2]
        az == ax * ax + ay * ay
        bz == bx * bx + by * by
        cz == cx * cx + cy * cy
    IN ax * (by * cz - bz * cy) - ay * (bx * cz - bz * cx)
         + az * (bx * cy - by * cx)

\* d strictly inside the circumcircle of a, b, c
InCircle(a, b, c, d) ==
    IF Cross(a, b, c) > 0 THEN InCircleDet(a, b, c, d) > 0
                          ELSE InCircleDet(a, b, c, d) < 0

TriKey(t) == t[1] * 10000 + t[2] * 100 + t[3]

DelaunayTriangles(P) ==
    LET n == Len(P)
    IN {t \in (1..n) \X (1..n) \X (1..n) :
          /\ t[1] < t[2] /\ t[2] < t[3]
          /\ Cross(P[t[1]], P[t[2]], P[t[3]]) # 0
          /\ \A l \in 1..n : l \in {t[1], t[2], t[3]}
                \/ ~InCircle(P[t[1]], P[t[2]], P[t[3]], P[l])}

\* Delaunay(pts) raises when it has no triangle to return
DelaunayFails(P) == DelaunayTriangles(P) = {}

\* tri.simplices: the triangles as an array
Delaunay(P) ==
    LET T == DelaunayTriangles(P)
        ks == SortInts({TriKey(t) : t \in T})
    IN [i \in 1..Len(ks) |-> CHOOSE t \in T : TriKey(t) = ks[i]]

(***************************************************************************)
(* generate_simple_polygon_radial: the star-shaped fallback.               *)
(***************************************************************************)
\* position of arctan2(v[2], v[1]) in (-pi, pi]: the half plane first
AngleHalf(v) ==
    IF v[2] < 0 THEN 0
    ELSE IF v[2] = 0 /\ v[1] >= 0 THEN 1
    ELSE IF v[2] > 0 THEN 2
    ELSE 3

\* arctan2 of u is smaller than arctan2 of v
AngleLess(u, v) ==
    \/ AngleHalf(u) < AngleHalf(v)
    \/ /\ AngleHalf(u) = AngleHalf(v)
       /\ u[1] * v[2] - u[2] * v[1] > 0

RECURSIVE SumCoord(_, _, _)
SumCoord(P, k, i) == IF i > Len(P) THEN 0 ELSE P[i][k] + SumCoord(P, k, i + 1)

\* np.argsort(angles) about the centroid; vectors are scaled by len(points)
RadialOrder(P) ==
    LET n == Len(P)
        sx == SumCoord(P, 1, 1)
        sy == SumCoord(P, 2, 1)
        v(i) == <<n * P[i][1] - sx, n * P[i][2] - sy>>
        before(j, i) == AngleLess(v(j), v(i))
                        \/ (~AngleLess(v(i), v(j)) /\ j < i)
        rank(i) == Cardinality({j \in 1..n : j # i /\ before(j, i)})
    IN [r \in 1..n |-> CHOOSE i \in 1..n : rank(i) = r - 1]

generate_simple_polygon_radial(n_points, seed, s) ==
    LET smp == sample_points_in_box(n_points, seed, s)
    IN [pts |-> smp.points, boundary |-> RadialOrder(smp.points),
        rng |-> smp.rng]

(***************************************************************************)
(* generate_concave_hull_peeling: helpers of the peel loop.                *)
(***************************************************************************)
SortedEdge(a, b) == IF a < b THEN <<a, b>> ELSE <<b, a>>

\* the three edges of a triangle, as sorted index pairs
TriEdges(t) == {SortedEdge(t[1], t[2]), SortedEdge(t[2], t[3]),
                SortedEdge(t[3], t[1])}

\* simplices[active_mask], as the set of indices into the triangle array
ActiveIdx(S, mask) == {i \in 1..Len(S) : mask[i]}

\* get_boundary_edges: the edges that occur in exactly one active triangle
get_boundary_edges(S, mask) ==
    LET act == ActiveIdx(S, mask)
        all == UNION {TriEdges(S[i]) : i \in act}
    IN {e \in all : Cardinality({i \in act : e \in TriEdges(S[i])}) = 1}

\* b_count of the candidate scan
BCount(t, boundary_edges) == Cardinality(TriEdges(t) \cap boundary_edges)

\* a variant that also picks triangles with two or three boundary edges
Candidates_AnyBoundaryTriangle(S, mask, boundary_edges) ==
    SortInts({i \in ActiveIdx(S, mask) : BCount(S[i], boundary_edges) >= 1})

\* candidates: active triangles with exactly one boundary edge, by index
Candidates(S, mask, boundary_edges) ==
    SortInts({i \in ActiveIdx(S, mask) : BCount(S[i], boundary_edges) = 1})

\* iteration order of a set of edges (fixed for a run, see hash_order)
EdgeKey(e) == e[1] * 100 + e[2]

EdgeSeq(E, order) ==
    LET ks == SortInts({EdgeKey(e) : e \in E})
        asc == [i \in 1..Len(ks) |-> CHOOSE e \in E : EdgeKey(e) = ks[i]]
    IN IF order = "asc" THEN asc ELSE Reverse(asc)

\* adj after the chaining loop over the edges: neighbours in insertion order
RECURSIVE BuildAdj(_, _, _)
BuildAdj(es, i, a) ==
    IF i > Len(es) THEN a
    ELSE LET u == es[i][1]
             v == es[i][2]
             a1 == [a EXCEPT ![u] = Append(@, v)]
             a2 == [a1 EXCEPT ![v] = Append(@, u)]
         IN BuildAdj(es, i + 1, a2)

\* NextNode without the test against prev: the first neighbour
NextNode_IgnoresPrev(neighbors, p) ==
    IF neighbors = <<>> THEN None ELSE neighbors[1]

\* the first neighbour that is not prev, None when there is none
NextNode(neighbors, p) ==
    LET ok == {i \in 1..Len(neighbors) : neighbors[i] # p}
    IN IF ok = {} THEN None
       ELSE neighbors[CHOOSE i \in ok : \A j \in ok : i <= j]

(***************************************************************************)
(* make_labels and the response of generate_polygon.                       *)
(***************************************************************************)
AlphaChars == <<"A", "B", "C", "D", "E", "F", "G", "H", "I", "J", "K", "L",
                "M", "N", "O", "P", "Q", "R", "S", "T", "U", "V", "W", "X",
                "Y", "Z">>

\* chr(ord('A') + i): a letter up to Z, then the character of that code
Chr(i) == IF i < 26 THEN AlphaChars[i + 1] ELSE "chr" \o ToString(65 + i)

\* labels[i + 1] is the label of position i, for i in 0..n-1
make_labels(n, scheme) ==
    [k \in 1..n |->
        LET i == k - 1
        IN IF scheme = "alpha" THEN Chr(i)
           ELSE IF scheme = "alternating"
                THEN IF i % 2 = 0 THEN ToString(i \div 2 + 1)
                                  ELSE Chr(i \div 2)
           ELSE ToString(i + 1)]

vc_map == (<<1, 1>> :> 6) @@ (<<1, 2>> :> 8) @@ (<<1, 3>> :> 10) @@
          (<<2, 1>> :> 8) @@ (<<2, 2>> :> 10) @@ (<<2, 3>> :> 12) @@
          (<<3, 1>> :> 10) @@ (<<3, 2>> :> 12) @@ (<<3, 3>> :> 14) @@
          (<<4, 1>> :> 10) @@ (<<4, 2>> :> 12) @@ (<<4, 3>> :> 14) @@
          (<<5, 1>> :> 12) @@ (<<5, 2>> :> 14) @@ (<<5, 3>> :> 16) @@
          (<<6, 1>> :> 14) @@ (<<6, 2>> :> 16) @@ (<<6, 3>> :> 18) @@
          (<<7, 1>> :> 16) @@ (<<7, 2>> :> 18) @@ (<<7, 3>> :> 20)

\* desired = vc_map.get((level, sublevel), 10)
Desired(r) ==
    IF <<r.level, r.sublevel>> \in DOMAIN vc_map
       THEN vc_map[<<r.level, r.sublevel>>] ELSE 10

\* npoints = base + 8, base = safe_vertex_count or desired
NPoints(r) ==
    LET safe_vertex_count ==
            IF r.vertex_count # None /\ r.vertex_count # 0
               /\ r.vertex_count < 50 THEN r.vertex_count ELSE None
        base == IF safe_vertex_count # None THEN safe_vertex_count
                ELSE Desired(r)
    IN base + 8

LabelScheme(r) ==
    IF r.sublevel = 1 THEN "numeric"
    ELSE IF r.sublevel = 2 THEN "alpha" ELSE "alternating"

\* GenerateResponse(points=point_labels, true_order=...)
Response(r, P, boundary) ==
    LET labels == make_labels(Len(boundary), LabelScheme(r))
    IN [points |-> [i \in 1..Len(boundary) |->
                      [x |-> P[boundary[i]][1], y |-> P[boundary[i]][2],
                       label |-> labels[i], index |-> boundary[i]]],
        true_order |-> boundary]

(***************************************************************************)
(* Requests to generate_polygon and the generator states a call may find.  *)
(***************************************************************************)
\* level, sublevel, vertex_count of the modelled requests
RequestShapes == {<<1, 1, None>>, <<1, 3, 5>>, <<6, 1, 6>>, <<7, 3, 6>>}

PeelSeeds == {1, 8, 12, 40}

Requests ==
    {[level |-> sh[1], sublevel |-> sh[2], vertex_count |-> sh[3],
      seed |-> sd] : sh \in RequestShapes, sd \in PeelSeeds}

\* states in which earlier draws of the process may have left a generator
PriorStates == {0, 40503}

Threads == {1, 2}

IdleConc ==
    /\ th_req = [t \in Threads |-> [n |-> 0, seed |-> None]]
    /\ th_pc = [t \in Threads |-> "idle"]
    /\ th_points = [t \in Threads |-> <<>>]
    /\ th_x = [t \in Threads |-> 0]
    /\ th_attempt = [t \in Threads |-> 0]

IdleMetric ==
    /\ set_a = <<>>
    /\ set_b = <<>>
    /\ d_geo = None
    /\ d_sco = None

IdleOrder ==
    /\ submitted_order = <<>>
    /\ other_order = <<>>
    /\ true_order = <<>>
    /\ similarity = None
    /\ other_similarity = None

IdleTask ==
    /\ task_points = <<>>
    /\ submissions = <<>>
    /\ args = <<>>
    /\ results = <<>>
    /\ score_out = None

IdleScoring ==
    /\ IdleOrder
    /\ IdleTask

IdleConvex ==
    /\ cv_req = [n_vertices |-> 0, seed |-> None]
    /\ attempts = 0

IdleMaze ==
    /\ mz_req = [segments |-> 0, width |-> 0]
    /\ angle = 0
    /\ curr_x = 0
    /\ curr_y = 0
    /\ mz_path = <<>>

IdlePeel ==
    /\ req = [level |-> 0, sublevel |-> 0, vertex_count |-> None,
              seed |-> None]
    /\ hash_order = "asc"
    /\ pts = <<>>
    /\ simplices = <<>>
    /\ active_mask = <<>>
    /\ iter = 0
    /\ current_boundary_len = 0
    /\ loop_exit = "none"
    /\ adj = <<>>
    /\ path = <<>>
    /\ prev = None
    /\ curr = None
    /\ hops = 0
    /\ chain_end = "none"

InitPeel ==
    /\ np_rng \in PriorStates
    /\ py_rng \in PriorStates
    /\ gen = "polygon"
    /\ pc = "start"
    /\ round = 1
    /\ first_out = "none"
    /\ out = "none"
    /\ req \in Requests
    /\ hash_order \in {"asc", "desc"}
    /\ pts = <<>>
    /\ simplices = <<>>
    /\ active_mask = <<>>
    /\ iter = 0
    /\ current_boundary_len = 0
    /\ loop_exit = "none"
    /\ adj = <<>>
    /\ path = <<>>
    /\ prev = None
    /\ curr = None
    /\ hops = 0
    /\ chain_end = "none"
    /\ IdleConvex
    /\ IdleMaze
    /\ IdleConc
    /\ IdleMetric
    /\ IdleScoring

(***************************************************************************)
(* generate_polygon, with generate_concave_hull_peeling inlined.           *)
(***************************************************************************)
\* seed = req.seed if req.seed is not None else random.randint(0, 2**30)
RequestSeed(r, s) == IF r.seed # None THEN r.seed ELSE RngNext(s)

\* generate_polygon up to the peel loop: seed, sample, triangulate
GeneratePolygon ==
    /\ gen = "polygon"
    /\ pc = "start"
    /\ LET seed == RequestSeed(req, py_rng)
           smp == sample_points_in_box(NPoints(req), seed, RngSeed(seed))
       IN /\ py_rng' = IF req.seed # None THEN py_rng ELSE RngNext(py_rng)
          /\ IF DelaunayFails(smp.points)
                THEN LET fb == generate_simple_polygon_radial(Desired(req),
                                                              seed, smp.rng)
                     IN /\ pts' = fb.pts
                        /\ path' = fb.boundary
                        /\ np_rng' = fb.rng
                        /\ simplices' = <<>>
                        /\ active_mask' = <<>>
                        /\ loop_exit' = "no_mesh"
                        /\ chain_end' = "fallback"
                        /\ pc' = "return"
                ELSE /\ pts' = smp.points
                     /\ path' = <<>>
                     /\ np_rng' = smp.rng
                     /\ simplices' = Delaunay(smp.points)
                     /\ active_mask' = [i \in 1..Len(simplices') |-> TRUE]
                     /\ loop_exit' = "none"
                     /\ chain_end' = "none"
                     /\ pc' = "peel"
    /\ iter' = 0
    /\ current_boundary_len' = 0
    /\ UNCHANGED <<round, first_out, out, req, hash_order, adj, prev, curr,
                   hops>>
    /\ UNCHANGED <<gen, notPeelVars>>

\* max_iter = len(simplices) * 2
MaxIter == Len(simplices) * 2

\* one iteration of the peel loop
PeelStep ==
    /\ gen = "polygon"
    /\ pc = "peel"
    /\ LET boundary_edges == get_boundary_edges(simplices, active_mask)
           candidates == Candidates(simplices, active_mask, boundary_edges)
           s1 == RngNext(np_rng)
           to_remove == candidates[Randint(s1, Len(candidates)) + 1]
       IN IF iter >= MaxIter
             THEN /\ loop_exit' = "max_iter"
                  /\ pc' = "extract"
                  /\ UNCHANGED <<active_mask, iter, current_boundary_len,
                                 np_rng>>
          ELSE IF ActiveIdx(simplices, active_mask) = {}
             THEN /\ loop_exit' = "empty"
                  /\ pc' = "extract"
                  /\ UNCHANGED <<active_mask, iter, current_boundary_len,
                                 np_rng>>
          ELSE IF Cardinality(boundary_edges) >= Desired(req)
             THEN /\ current_boundary_len' = Cardinality(boundary_edges)
                  /\ loop_exit' = "target"
                  /\ pc' = "extract"
                  /\ UNCHANGED <<active_mask, iter, np_rng>>
          ELSE IF candidates = <<>>
             THEN /\ current_boundary_len' = Cardinality(boundary_edges)
                  /\ loop_exit' = "no_candidate"
                  /\ pc' = "extract"
                  /\ UNCHANGED <<active_mask, iter, np_rng>>
          ELSE /\ current_boundary_len' = Cardinality(boundary_edges)
               /\ active_mask' = [active_mask EXCEPT ![to_remove] = FALSE]
               /\ np_rng' = s1
               /\ iter' = iter + 1
               /\ UNCHANGED <<loop_exit, pc>>
    /\ UNCHANGED <<py_rng, round, first_out, out, req, hash_order, pts,
                   simplices, adj, path, prev, curr, hops, chain_end>>
    /\ UNCHANGED <<gen, notPeelVars>>

\* after the loop: the final boundary edges, adj and the start of the chain
ExtractBoundary ==
    /\ gen = "polygon"
    /\ pc = "extract"
    /\ LET final_boundary_edges == get_boundary_edges(simplices, active_mask)
           es == EdgeSeq(final_boundary_edges, hash_order)
           seed == RequestSeed(req, py_rng)
       IN IF ActiveIdx(simplices, active_mask) = {}
             \/ final_boundary_edges = {}
             THEN LET fb == generate_simple_polygon_radial(Desired(req),
                                                           seed, np_rng)
                  IN /\ pts' = fb.pts
                     /\ path' = fb.boundary
                     /\ np_rng' = fb.rng
                     /\ chain_end' = "fallback"
                     /\ pc' = "return"
                     /\ UNCHANGED <<adj, prev, curr>>
             ELSE /\ adj' = BuildAdj(es, 1, [v \in 1..Len(pts) |-> <<>>])
                  /\ path' = <<es[1][1]>>
                  /\ prev' = None
                  /\ curr' = es[1][1]
                  /\ pc' = "chain"
                  /\ UNCHANGED <<pts, np_rng, chain_end>>
    /\ hops' = 0
    /\ UNCHANGED <<py_rng, round, first_out, out, req, hash_order, simplices,
                   active_mask, iter, current_boundary_len, loop_exit>>
    /\ UNCHANGED <<gen, notPeelVars>>

\* one iteration of the chaining loop
ChainStep ==
    /\ gen = "polygon"
    /\ pc = "chain"
    /\ LET next_node == NextNode(adj[curr], prev)
       IN IF hops >= Len(pts) * 2
             THEN /\ chain_end' = "budget"
                  /\ pc' = "return"
                  /\ UNCHANGED <<path, prev, curr, hops>>
          ELSE IF next_node = None
             THEN /\ chain_end' = "dead_end"
                  /\ pc' = "return"
                  /\ UNCHANGED <<path, prev, curr, hops>>
          ELSE IF next_node = path[1]
             THEN /\ chain_end' = "closed"
                  /\ pc' = "return"
                  /\ UNCHANGED <<path, prev, curr, hops>>
          ELSE /\ path' = Append(path, next_node)
               /\ prev' = curr
               /\ curr' = next_node
               /\ hops' = hops + 1
               /\ UNCHANGED <<chain_end, pc>>
    /\ UNCHANGED <<rngVars, round, first_out, out, req, hash_order, pts,
                   simplices, active_mask, iter, current_boundary_len,
                   loop_exit, adj>>
    /\ UNCHANGED <<gen, notPeelVars>>

\* generate_polygon after the generator returned: error 500 or the response
ReturnPolygon ==
    /\ gen = "polygon"
    /\ pc = "return"
    /\ IF Len(path) < 3
          THEN out' = [status |-> 500, pts |-> <<>>, boundary |-> <<>>,
                       response |-> "none"]
          ELSE out' = [status |-> 200, pts |-> pts, boundary |-> path,
                       response |-> Response(req, pts, path)]
    /\ pc' = "done"
    /\ UNCHANGED <<rngVars, round, first_out, peelVars>>
    /\ UNCHANGED <<gen, notPeelVars>>

\* the same request is sent again, after other draws moved the generators
RepeatPolygon ==
    /\ gen = "polygon"
    /\ pc = "done"
    /\ round = 1
    /\ round' = 2
    /\ first_out' = out
    /\ out' = "none"
    /\ np_rng' \in PriorStates
    /\ py_rng' \in PriorStates
    /\ pc' = "start"
    /\ pts' = <<>>
    /\ simplices' = <<>>
    /\ active_mask' = <<>>
    /\ iter' = 0
    /\ current_boundary_len' = 0
    /\ loop_exit' = "none"
    /\ adj' = <<>>
    /\ path' = <<>>
    /\ prev' = None
    /\ curr' = None
    /\ hops' = 0
    /\ chain_end' = "none"
    /\ UNCHANGED <<req, hash_order>>
    /\ UNCHANGED <<gen, notPeelVars>>

NextPeel ==
    \/ GeneratePolygon
    \/ PeelStep
    \/ ExtractBoundary
    \/ ChainStep
    \/ ReturnPolygon
    \/ RepeatPolygon

SpecPeel == InitPeel /\ [][NextPeel]_vars

(***************************************************************************)
(* Fixed-point arithmetic for the corridor, the convex generator and the   *)
(* metrics.                                                                *)
(***************************************************************************)
Scale == 10000
Pi == 31416

MulFix(a, b) == (a * b) \div Scale

RECURSIVE ISqrtIn(_, _, _)
ISqrtIn(n, lo, hi) ==
    IF lo >= hi THEN lo
    ELSE LET mid == (lo + hi + 1) \div 2
         IN IF mid * mid <= n THEN ISqrtIn(n, mid, hi)
                              ELSE ISqrtIn(n, lo, mid - 1)

\* math.sqrt on integers: the largest r with r * r <= n
ISqrt(n) == ISqrtIn(n, 0, Min(n, 46340))

\* the length sqrt(dx*dx + dy*dy) of a vector
Length(dx, dy) == ISqrt(dx * dx + dy * dy)

\* cosine and sine of x for 0 <= x <= Pi / 2
CosSeries(x) ==
    LET x2 == MulFix(x, x)
        c4 == Scale - x2 \div 56
        c3 == Scale - MulFix(x2, c4) \div 30
        c2 == Scale - MulFix(x2, c3) \div 12
    IN Scale - MulFix(x2, c2) \div 2

SinSeries(x) ==
    LET x2 == MulFix(x, x)
        s4 == Scale - x2 \div 72
        s3 == Scale - MulFix(x2, s4) \div 42
        s2 == Scale - MulFix(x2, s3) \div 20
        s1 == Scale - MulFix(x2, s2) \div 6
    IN MulFix(x, s1)

\* math.cos and math.sin
Cos(a) ==
    LET m == a % (2 * Pi)
    IN IF m <= Pi \div 2 THEN CosSeries(m)
       ELSE IF m <= Pi THEN -CosSeries(Pi - m)
       ELSE IF m <= Pi + Pi \div 2 THEN -CosSeries(m - Pi)
       ELSE CosSeries(2 * Pi - m)

Sin(a) ==
    LET m == a % (2 * Pi)
    IN IF m <= Pi \div 2 THEN SinSeries(m)
       ELSE IF m <= Pi THEN SinSeries(Pi - m)
       ELSE IF m <= Pi + Pi \div 2 THEN -SinSeries(m - Pi)
       ELSE -SinSeries(2 * Pi - m)

(***************************************************************************)
(* generate_maze_corridor and compute_funnel_path.                         *)
(***************************************************************************)
StepSize == 800
TurnMax == 5000
ConeMargin == 2000
XMin == 2000
XMax == 8000
YMin == 1000
YMax == 9000

\* the tangent at vertex i of the centerline
Tangent(P, i) ==
    IF i < Len(P) THEN <<P[i + 1][1] - P[i][1], P[i + 1][2] - P[i][2]>>
    ELSE IF i > 1 THEN <<P[i][1] - P[i - 1][1], P[i][2] - P[i - 1][2]>>
    ELSE <<0, -Scale>>

\* a variant that offsets along the tangent instead of across it
Normal_AlongTangent(P, i) ==
    LET t == Tangent(P, i)
        length == Length(t[1], t[2])
    IN IF length > 0 THEN <<(t[1] * Scale) \div length,
                            (t[2] * Scale) \div length>>
       ELSE <<Scale, 0>>

\* the normal (nx, ny) at vertex i
Normal(P, i) ==
    LET t == Tangent(P, i)
        length == Length(t[1], t[2])
    IN IF length > 0 THEN <<(-t[2] * Scale) \div length,
                            (t[1] * Scale) \div length>>
       ELSE <<Scale, 0>>

LeftWall(P, width) ==
    [i \in 1..Len(P) |-> <<P[i][1] + MulFix(Normal(P, i)[1], width),
                           P[i][2] + MulFix(Normal(P, i)[2], width)>>]

RightWall(P, width) ==
    [i \in 1..Len(P) |-> <<P[i][1] - MulFix(Normal(P, i)[1], width),
                           P[i][2] - MulFix(Normal(P, i)[2], width)>>]

\* compute_funnel_path: the midpoints of the two walls
compute_funnel_path(left_poly, right_poly) ==
    [i \in 1..Len(left_poly) |->
        <<(left_poly[i][1] + right_poly[i][1]) \div 2,
          (left_poly[i][2] + right_poly[i][2]) \div 2>>]

MaxSegments == 30

Widths == {600, 1500}

MazeRequests ==
    {[segments |-> sg, width |-> w] : sg \in 0..MaxSegments, w \in Widths}

InitMaze ==
    /\ np_rng \in PriorStates
    /\ py_rng \in PriorStates
    /\ gen = "maze"
    /\ pc = "start"
    /\ round = 1
    /\ first_out = "none"
    /\ out = "none"
    /\ mz_req \in MazeRequests
    /\ angle = 0
    /\ curr_x = 0
    /\ curr_y = 0
    /\ mz_path = <<>>
    /\ IdlePeel
    /\ IdleConvex
    /\ IdleConc
    /\ IdleMetric
    /\ IdleScoring

\* a variant that only bounds from below
Clamp_LowerOnly(lo, hi, v) == Max(lo, v)

\* max(lo, min(hi, v))
Clamp(lo, hi, v) == Max(lo, Min(hi, v))

\* the start of a call: start point and heading
MazeStart ==
    /\ gen = "maze"
    /\ pc = "start"
    /\ curr_x' = 5000
    /\ curr_y' = 9000
    /\ angle' = -(Pi \div 2)
    /\ mz_path' = <<<<5000, 9000>>>>
    /\ pc' = "walk"
    /\ UNCHANGED <<rngVars, gen, round, first_out, out, mz_req, notMazeVars>>

\* one iteration of the walk
MazeStep ==
    /\ gen = "maze"
    /\ pc = "walk"
    /\ Len(mz_path) - 1 < mz_req.segments
    /\ LET s1 == RngNext(py_rng)
           turned == angle + Uniform(s1, -TurnMax, TurnMax)
           a == Clamp(-Pi + ConeMargin, -ConeMargin, turned)
           x == Clamp(XMin, XMax, curr_x + MulFix(Cos(a), StepSize))
           y == Clamp(YMin, YMax, curr_y + MulFix(Sin(a), StepSize))
       IN /\ py_rng' = s1
          /\ angle' = a
          /\ curr_x' = x
          /\ curr_y' = y
          /\ mz_path' = Append(mz_path, <<x, y>>)
    /\ UNCHANGED <<np_rng, gen, pc, round, first_out, out, mz_req,
                   notMazeVars>>

\* after the walk: the walls and the returned corridor
MazeWalls ==
    /\ gen = "maze"
    /\ pc = "walk"
    /\ Len(mz_path) - 1 >= mz_req.segments
    /\ out' = [path |-> mz_path,
               left_wall |-> LeftWall(mz_path, mz_req.width),
               right_wall |-> RightWall(mz_path, mz_req.width)]
    /\ pc' = "done"
    /\ UNCHANGED <<rngVars, gen, round, first_out, mazeVars, notMazeVars>>

\* the same call is made again, after other draws moved the generators
RepeatMaze ==
    /\ gen = "maze"
    /\ pc = "done"
    /\ round = 1
    /\ round' = 2
    /\ first_out' = out
    /\ out' = "none"
    /\ np_rng' \in PriorStates
    /\ py_rng' \in PriorStates
    /\ pc' = "start"
    /\ angle' = 0
    /\ curr_x' = 0
    /\ curr_y' = 0
    /\ mz_path' = <<>>
    /\ UNCHANGED <<gen, mz_req, notMazeVars>>

NextMaze ==
    \/ MazeStart
    \/ MazeStep
    \/ MazeWalls
    \/ RepeatMaze

SpecMaze == InitMaze /\ [][NextMaze]_vars

\* generator states that a walk may start from, spread over the state space
WalkStates == {k * 1024 : k \in 0..63}

\* calls of the longest walk, from any of the generator states
InitWalk ==
    /\ np_rng = 0
    /\ py_rng \in WalkStates
    /\ gen = "maze"
    /\ pc = "start"
    /\ round = 1
    /\ first_out = "none"
    /\ out = "none"
    /\ mz_req \in {[segments |-> MaxSegments, width |-> w] : w \in Widths}
    /\ angle = 0
    /\ curr_x = 0
    /\ curr_y = 0
    /\ mz_path = <<>>
    /\ IdlePeel
    /\ IdleConvex
    /\ IdleConc
    /\ IdleMetric
    /\ IdleScoring

SpecWalk == InitWalk /\ [][NextMaze]_vars

(***************************************************************************)
(* generate_convex_polygon.                                                *)
(***************************************************************************)
MaxHullAttempts == 100

\* the generator state after k draws
RngAdvance(s, k) ==
    LET after[a \in 0..65535, i \in 0..k] ==
            IF i = 0 THEN a
            ELSE IF i % 2 = 1 THEN RngNext(after[a, i - 1])
            ELSE after[after[a, i \div 2], i \div 2]
    IN after[s, Max(k, 0)]

\* np.random.uniform(low, high, size=(k, 2)): k points, row by row
DrawPoints(s, k) ==
    [points |-> [i \in 1..k |->
                    <<Uniform(RngAdvance(s, 2 * i - 1), 0, Scale),
                      Uniform(RngAdvance(s, 2 * i), 0, Scale)>>],
     rng |-> RngAdvance(s, 2 * k)]

\* r lies on the segment from p to q
OnSegment(p, q, r) ==
    /\ Cross(p, q, r) = 0
    /\ Min(p[1], q[1]) <= r[1] /\ r[1] <= Max(p[1], q[1])
    /\ Min(p[2], q[2]) <= r[2] /\ r[2] <= Max(p[2], q[2])

\* p is a vertex of the hull: some q follows it counterclockwise
HullVertex(P, p) ==
    \E q \in P \ {p} :
        \A r \in P \ {p, q} : Cross(p, q, r) > 0 \/ OnSegment(p, q, r)

\* the geometry kernel: ConvexHull(candidates).vertices as points, in
\* counterclockwise order from the lowest of the leftmost points
ConvexHull(candidates) ==
    LET P == Range(candidates)
        H == {p \in P : HullVertex(P, p)}
        start == CHOOSE p \in H :
                    \A q \in H : p[1] < q[1] \/ (p[1] = q[1] /\ p[2] <= q[2])
        rank(v) == IF v = start THEN 1
                   ELSE 2 + Cardinality({u \in H \ {start, v} :
                                            Cross(start, u, v) > 0})
    IN [i \in 1..Cardinality(H) |-> CHOOSE v \in H : rank(v) = i]

\* the fallback: a regular polygon with a drawn radius per vertex
Jittered(n, s) ==
    LET cx == Scale \div 2
        cy == Scale \div 2
        radius == MulFix(Scale, 4000)
        vertex(i) ==
            LET a == (2 * Pi * i) \div n
                r == MulFix(radius, Uniform(RngAdvance(s, i + 1), 8000, Scale))
            IN <<cx + MulFix(r, Cos(a)), cy + MulFix(r, Sin(a))>>
    IN [points |-> [i \in 1..n |-> vertex(i - 1)], rng |-> RngAdvance(s, n)]

ConvexSizes == {3, 4, 6, 12, 24}

ConvexSeeds == {1, 2}

ConvexRequests ==
    {[n_vertices |-> n, seed |-> sd] : n \in ConvexSizes, sd \in ConvexSeeds}

InitConvex ==
    /\ np_rng \in PriorStates
    /\ py_rng \in PriorStates
    /\ gen = "convex"
    /\ pc = "start"
    /\ round = 1
    /\ first_out = "none"
    /\ out = "none"
    /\ cv_req \in ConvexRequests
    /\ attempts = 0
    /\ IdlePeel
    /\ IdleMaze
    /\ IdleConc
    /\ IdleMetric
    /\ IdleScoring

\* the start of a call: both generators are seeded, then 4 * n_vertices
\* draws are made for lists that are not used afterwards
ConvexStart ==
    /\ gen = "convex"
    /\ pc = "start"
    /\ py_rng' = RngAdvance(IF cv_req.seed # None THEN RngSeed(cv_req.seed)
                                                  ELSE py_rng,
                            4 * cv_req.n_vertices)
    /\ np_rng' = IF cv_req.seed # None THEN RngSeed(cv_req.seed) ELSE np_rng
    /\ attempts' = 0
    /\ pc' = "oversample"
    /\ UNCHANGED <<gen, round, first_out, out, cv_req, notConvexVars>>

\* one iteration of the oversampling loop
ConvexAttempt ==
    /\ gen = "convex"
    /\ pc = "oversample"
    /\ attempts < MaxHullAttempts
    /\ LET d == DrawPoints(np_rng, cv_req.n_vertices * 3)
           hull == ConvexHull(d.points)
       IN /\ np_rng' = d.rng
          /\ IF Len(hull) >= cv_req.n_vertices
                THEN /\ out' = SubSeq(hull, 1, cv_req.n_vertices)
                     /\ pc' = "done"
                     /\ UNCHANGED attempts
                ELSE /\ attempts' = attempts + 1
                     /\ UNCHANGED <<out, pc>>
    /\ UNCHANGED <<py_rng, gen, round, first_out, cv_req, notConvexVars>>

\* after the loop: the jittered regular polygon
ConvexFallback ==
    /\ gen = "convex"
    /\ pc = "oversample"
    /\ attempts >= MaxHullAttempts
    /\ LET j == Jittered(cv_req.n_vertices, py_rng)
       IN /\ out' = j.points
          /\ py_rng' = j.rng
    /\ pc' = "done"
    /\ UNCHANGED <<np_rng, gen, round, first_out, convexVars, notConvexVars>>

\* the same call is made again, after other draws moved the generators
RepeatConvex ==
    /\ gen = "convex"
    /\ pc = "done"
    /\ round = 1
    /\ round' = 2
    /\ first_out' = out
    /\ out' = "none"
    /\ np_rng' \in PriorStates
    /\ py_rng' \in PriorStates
    /\ pc' = "start"
    /\ attempts' = 0
    /\ UNCHANGED <<gen, cv_req, notConvexVars>>

NextConvex ==
    \/ ConvexStart
    \/ ConvexAttempt
    \/ ConvexFallback
    \/ RepeatConvex

SpecConvex == InitConvex /\ [][NextConvex]_vars

(***************************************************************************)
(* Two calls of sample_points_in_box in two threads of the worker pool.    *)
(* Each call to np.random is one step; the generator is the one of the     *)
(* process.                                                                *)
(***************************************************************************)
MaxConcPoints == 2

ConcSeeds == {1, 8}

InitConc ==
    /\ np_rng \in PriorStates
    /\ py_rng = 0
    /\ gen = "conc"
    /\ pc = "run"
    /\ round = 1
    /\ first_out = "none"
    /\ out = "none"
    /\ th_req \in [Threads -> {[n |-> n, seed |-> sd] :
                                n \in 1..MaxConcPoints, sd \in ConcSeeds}]
    /\ th_pc = [t \in Threads |-> "seed"]
    /\ th_points = [t \in Threads |-> <<>>]
    /\ th_x = [t \in Threads |-> 0]
    /\ th_attempt = [t \in Threads |-> 0]
    /\ IdlePeel
    /\ IdleConvex
    /\ IdleMaze
    /\ IdleMetric
    /\ IdleScoring

\* np.random.seed(seed)
ConcSeed(t) ==
    /\ gen = "conc"
    /\ th_pc[t] = "seed"
    /\ np_rng' = IF th_req[t].seed # None THEN RngSeed(th_req[t].seed)
                                         ELSE np_rng
    /\ th_pc' = [th_pc EXCEPT ![t] = "draw_x"]
    /\ UNCHANGED <<py_rng, callVars, th_req, th_points, th_x, th_attempt,
                   notConcVars>>

\* x = np.random.uniform(x_min, x_max)
ConcDrawX(t) ==
    /\ gen = "conc"
    /\ th_pc[t] = "draw_x"
    /\ np_rng' = RngNext(np_rng)
    /\ th_x' = [th_x EXCEPT ![t] = Uniform(np_rng', BoxLo, BoxHi)]
    /\ th_pc' = [th_pc EXCEPT ![t] = "draw_y"]
    /\ UNCHANGED <<py_rng, callVars, th_req, th_points, th_attempt,
                   notConcVars>>

\* y = np.random.uniform(y_min, y_max), the distance check, and the
\* bookkeeping of the two loops
ConcDrawY(t) ==
    /\ gen = "conc"
    /\ th_pc[t] = "draw_y"
    /\ np_rng' = RngNext(np_rng)
    /\ LET p == <<th_x[t], Uniform(np_rng', BoxLo, BoxHi)>>
           accepted == th_points[t] = <<>> \/ FarEnough(th_points[t], p)
           last == th_attempt[t] + 1 >= MaxAttempts
           points == IF accepted \/ last THEN Append(th_points[t], p)
                                         ELSE th_points[t]
       IN /\ th_points' = [th_points EXCEPT ![t] = points]
          /\ th_attempt' = [th_attempt EXCEPT
                               ![t] = IF accepted \/ last THEN 0 ELSE @ + 1]
          /\ th_pc' = [th_pc EXCEPT
                          ![t] = IF Len(points) >= th_req[t].n THEN "done"
                                                                ELSE "draw_x"]
    /\ UNCHANGED <<py_rng, callVars, th_req, th_x, notConcVars>>

NextConc ==
    \E t \in Threads :
        \/ ConcSeed(t)
        \/ ConcDrawX(t)
        \/ ConcDrawY(t)

SpecConc == InitConc /\ [][NextConc]_vars

(***************************************************************************)
(* sample_points_in_box step by step, one attempt per step, with the       *)
(* min_distance argument as an input; and the calls whose termination is   *)
(* checked: a call of generate_polygon or a call of the sampler.           *)
(***************************************************************************)
\* a variant that gives up after twice as many attempts
LastAttempt_Doubled(attempt) == attempt + 1 >= 2 * MaxAttempts

\* the attempt that ends "for attempt in range(100)"
LastAttempt(attempt) == attempt + 1 >= MaxAttempts

\* min_distance: the default 0.08, and one that no second point can keep
SampleDistances == {MinDistance, 2 * (BoxHi - BoxLo)}

MaxSamplePoints == 3

InitSample ==
    /\ np_rng \in PriorStates
    /\ py_rng = 0
    /\ gen = "sample"
    /\ pc = "run"
    /\ round = 1
    /\ first_out = "none"
    /\ out = "none"
    /\ th_req \in {[t \in Threads |->
                      IF t = 1 THEN [n |-> n, seed |-> sd, min_distance |-> d]
                               ELSE [n |-> 0, seed |-> None]] :
                     n \in 1..MaxSamplePoints, sd \in ConcSeeds \cup {None},
                     d \in SampleDistances}
    /\ th_pc = [t \in Threads |-> IF t = 1 THEN "seed" ELSE "idle"]
    /\ th_points = [t \in Threads |-> <<>>]
    /\ th_x = [t \in Threads |-> 0]
    /\ th_attempt = [t \in Threads |-> 0]
    /\ IdlePeel
    /\ IdleConvex
    /\ IdleMaze
    /\ IdleMetric
    /\ IdleScoring

\* np.random.seed(seed) when a seed is given
SampleSeed(t) ==
    /\ gen = "sample"
    /\ th_pc[t] = "seed"
    /\ np_rng' = IF th_req[t].seed # None THEN RngSeed(th_req[t].seed)
                                         ELSE np_rng
    /\ th_pc' = [th_pc EXCEPT ![t] = "attempt"]
    /\ UNCHANGED <<py_rng, callVars, th_req, th_points, th_x, th_attempt,
                   notConcVars>>

\* one pass of the attempt loop: draw x and y, check the distances, and
\* append when accepted or when the attempts are used up
SampleAttempt(t) ==
    /\ gen = "sample"
    /\ th_pc[t] = "attempt"
    /\ LET s1 == RngNext(np_rng)
           s2 == RngNext(s1)
           p == <<Uniform(s1, BoxLo, BoxHi), Uniform(s2, BoxLo, BoxHi)>>
           d == th_req[t].min_distance
           accepted == \/ th_points[t] = <<>>
                       \/ \A i \in 1..Len(th_points[t]) :
                             DistSq(th_points[t][i], p) >= d * d
           last == LastAttempt(th_attempt[t])
           points == IF accepted \/ last THEN Append(th_points[t], p)
                                         ELSE th_points[t]
       IN /\ np_rng' = s2
          /\ th_x' = [th_x EXCEPT ![t] = p[1]]
          /\ th_points' = [th_points EXCEPT ![t] = points]
          /\ th_attempt' = [th_attempt EXCEPT
                               ![t] = IF accepted \/ last THEN 0 ELSE @ + 1]
          /\ th_pc' = [th_pc EXCEPT
                          ![t] = IF Len(points) >= th_req[t].n THEN "done"
                                                                ELSE "attempt"]
    /\ UNCHANGED <<py_rng, callVars, th_req, notConcVars>>

NextSample ==
    \E t \in Threads :
        \/ SampleSeed(t)
        \/ SampleAttempt(t)

InitCall == InitPeel \/ InitSample

NextCall == NextPeel \/ NextSample

\* the sampler takes its steps in turn: the code is sequential
SpecCall == InitCall /\ [][NextCall]_vars /\ WF_vars(NextSample)

(***************************************************************************)
(* The Hausdorff metrics.  scipy's directed_hausdorff(u, v) is the largest *)
(* distance from a point of u to its nearest point of v.                   *)
(***************************************************************************)
Infinity == 2147483647

HighPenalty == 1000 * Scale

MaxOf(S) == CHOOSE y \in S : \A z \in S : z <= y

MinOf(S) == CHOOSE y \in S : \A z \in S : y <= z

Dist(p, q) == Length(p[1] - q[1], p[2] - q[2])

directed_hausdorff(u, v) ==
    MaxOf({MinOf({Dist(u[i], v[j]) : j \in 1..Len(v)}) : i \in 1..Len(u)})

\* a variant that returns the forward directed distance only
compute_hausdorff_distance_ForwardOnly(points_a, points_b) ==
    IF points_a = <<>> \/ points_b = <<>> THEN Infinity
    ELSE directed_hausdorff(points_a, points_b)

\* geometry_utils: the conversion or the kernel raises on an empty list,
\* and the handler returns float('inf')
compute_hausdorff_distance(points_a, points_b) ==
    IF points_a = <<>> \/ points_b = <<>> THEN Infinity
    ELSE LET forward == directed_hausdorff(points_a, points_b)
             backward == directed_hausdorff(points_b, points_a)
         IN Max(forward, backward)

\* scoring
calculate_hausdorff_distance(a, b) ==
    IF a = <<>> \/ b = <<>> THEN HighPenalty
    ELSE LET d1 == directed_hausdorff(a, b)
             d2 == directed_hausdorff(b, a)
         IN Max(d1, d2)

MaxHPoints == 2

HPoints == {<<0, 0>>, <<1000, 0>>, <<10000, 0>>,
            <<0, 1000>>, <<1000, 1000>>, <<10000, 10000>>}

PointLists == UNION {[1..m -> HPoints] : m \in 0..MaxHPoints}

InitMetric ==
    /\ np_rng = 0
    /\ py_rng = 0
    /\ gen = "metric"
    /\ pc = "start"
    /\ round = 1
    /\ first_out = "none"
    /\ out = "none"
    /\ set_a \in PointLists
    /\ set_b \in PointLists
    /\ d_geo = None
    /\ d_sco = None
    /\ IdlePeel
    /\ IdleConvex
    /\ IdleMaze
    /\ IdleConc
    /\ IdleScoring

\* both metrics are applied to the two lists
Hausdorff ==
    /\ gen = "metric"
    /\ pc = "start"
    /\ d_geo' = compute_hausdorff_distance(set_a, set_b)
    /\ d_sco' = calculate_hausdorff_distance(set_a, set_b)
    /\ pc' = "done"
    /\ UNCHANGED <<rngVars, gen, round, first_out, out, set_a, set_b,
                   notMetricVars>>

NextMetric == Hausdorff

SpecMetric == InitMetric /\ [][NextMetric]_vars

(***************************************************************************)
(* compute_vertex_order_similarity.                                        *)
(***************************************************************************)
\* a variant whose table never skips an element of seq2
lcs_length_NoSkip(seq1, seq2) ==
    LET m == Len(seq1)
        n == Len(seq2)
        dp[i \in 0..m, j \in 0..n] ==
            IF i = 0 \/ j = 0 THEN 0
            ELSE IF seq1[i] = seq2[j] THEN dp[i - 1, j - 1] + 1
            ELSE dp[i - 1, j]
    IN dp[m, n]

\* the table dp of the nested function, read at dp[m][n]
lcs_length(seq1, seq2) ==
    LET m == Len(seq1)
        n == Len(seq2)
        dp[i \in 0..m, j \in 0..n] ==
            IF i = 0 \/ j = 0 THEN 0
            ELSE IF seq1[i] = seq2[j] THEN dp[i - 1, j - 1] + 1
            ELSE Max(dp[i - 1, j], dp[i, j - 1])
    IN dp[m, n]

\* the returned ratio, in units of 1/Scale
compute_vertex_order_similarity(submitted, true) ==
    IF submitted = <<>> \/ true = <<>> THEN 0
    ELSE LET lcs == lcs_length(submitted, true)
             max_len == Max(Len(submitted), Len(true))
         IN IF max_len > 0 THEN (lcs * Scale) \div max_len ELSE 0

MaxOrderLen == 2

VertexIndices == 0..2

Orders == UNION {[1..m -> VertexIndices] : m \in 0..MaxOrderLen}

InitOrder ==
    /\ np_rng = 0
    /\ py_rng = 0
    /\ gen = "order"
    /\ pc = "start"
    /\ round = 1
    /\ first_out = "none"
    /\ out = "none"
    /\ submitted_order \in Orders
    /\ other_order \in Orders
    /\ true_order \in Orders
    /\ similarity = None
    /\ other_similarity = None
    /\ IdleTask
    /\ IdlePeel
    /\ IdleConvex
    /\ IdleMaze
    /\ IdleConc
    /\ IdleMetric

\* the function is applied to each submission
OrderSimilarity ==
    /\ gen = "order"
    /\ pc = "start"
    /\ similarity' = compute_vertex_order_similarity(submitted_order, true_order)
    /\ other_similarity' =
           compute_vertex_order_similarity(other_order, true_order)
    /\ pc' = "done"
    /\ UNCHANGED <<rngVars, gen, round, first_out, out, submitted_order,
                   other_order, true_order, taskVars, notScoringVars>>

NextOrder == OrderSimilarity

SpecOrder == InitOrder /\ [][NextOrder]_vars

(***************************************************************************)
(* analyze_delaunay_lures.  Vertex indices are positions in the point      *)
(* list, counted from 1.                                                   *)
(***************************************************************************)
\* the inputs and outputs that a scoring call does not use
IdleCall ==
    /\ np_rng = 0
    /\ py_rng = 0
    /\ pc = "start"
    /\ round = 1
    /\ first_out = "none"
    /\ out = "none"
    /\ IdlePeel
    /\ IdleConvex
    /\ IdleMaze
    /\ IdleConc
    /\ IdleMetric

\* delaunay_edges: the sorted index pairs of the sides of the simplices
DelaunayEdges(P) == UNION {TriEdges(t) : t \in DelaunayTriangles(P)}

\* true_order.index(prev): the first position of prev, None when absent
IndexOf(order, v) ==
    IF \E k \in 1..Len(order) : order[k] = v
       THEN CHOOSE k \in 1..Len(order) :
               order[k] = v /\ \A j \in 1..(k - 1) : order[j] # v
       ELSE None

\* a variant that also accepts the hop in the reverse direction
IsValidEdge_EitherDirection(order, prev_click, curr_click) ==
    \E k \in 1..(Len(order) - 1) :
        {order[k], order[k + 1]} = {prev_click, curr_click}

\* is_valid_edge for the clicks prev, curr
IsValidEdge(order, prev_click, curr_click) ==
    LET prev_idx_in_order == IndexOf(order, prev_click)
    IN /\ prev_idx_in_order # None
       /\ prev_idx_in_order < Len(order)
       /\ order[prev_idx_in_order + 1] = curr_click

RECURSIVE LureLoop(_, _, _, _, _, _)
\* the loop over consecutive clicks, from i on
LureLoop(edges, order, subs, i, lure_mistakes, total_mistakes) ==
    IF i > Len(subs)
       THEN [lure_mistakes |-> lure_mistakes, total_mistakes |-> total_mistakes]
    ELSE IF IsValidEdge(order, subs[i - 1], subs[i])
       THEN LureLoop(edges, order, subs, i + 1, lure_mistakes, total_mistakes)
    ELSE LureLoop(edges, order, subs, i + 1,
                  IF SortedEdge(subs[i - 1], subs[i]) \in edges
                     THEN lure_mistakes + 1 ELSE lure_mistakes,
                  total_mistakes + 1)

analyze_delaunay_lures(P, order, subs) ==
    IF Len(P) < 3 \/ DelaunayFails(P) \/ Len(subs) < 2
       THEN [lure_susceptibility |-> 0, delaunay_compliance |-> 0]
    ELSE LET c == LureLoop(DelaunayEdges(P), order, subs, 2, 0, 0)
             lure_score == IF c.total_mistakes > 0
                              THEN (c.lure_mistakes * Scale)
                                       \div c.total_mistakes
                              ELSE 0
         IN [lure_susceptibility |-> lure_score,
             total_lure_errors |-> c.lure_mistakes * Scale]

MaxClicks == 3

\* a convex quadrilateral, a triangle around a fourth point, three points
\* on a line, and two points
LurePointLists ==
    {<<<<0, 0>>, <<10, 0>>, <<12, 9>>, <<0, 10>>>>,
     <<<<0, 0>>, <<12, 0>>, <<5, 11>>, <<6, 4>>>>,
     <<<<0, 0>>, <<5, 5>>, <<10, 10>>>>,
     <<<<0, 0>>, <<10, 0>>>>}

\* the visiting orders of n vertices, each vertex once
VisitingOrders(n) ==
    {o \in [1..n -> 1..n] : \A i \in 1..n : \A j \in 1..n : i # j => o[i] # o[j]}

\* click sequences; index n + 1 refers to no vertex
ClickSequences(n) == UNION {[1..m -> 1..(n + 1)] : m \in 0..MaxClicks}

InitLure ==
    /\ gen = "lure"
    /\ task_points \in LurePointLists
    /\ true_order \in VisitingOrders(Len(task_points))
    /\ submissions \in ClickSequences(Len(task_points))
    /\ args = <<>>
    /\ results = <<>>
    /\ score_out = None
    /\ submitted_order = <<>>
    /\ other_order = <<>>
    /\ similarity = None
    /\ other_similarity = None
    /\ IdleCall

AnalyzeLures ==
    /\ gen = "lure"
    /\ pc = "start"
    /\ score_out' = analyze_delaunay_lures(task_points, true_order, submissions)
    /\ pc' = "done"
    /\ UNCHANGED <<rngVars, gen, round, first_out, out, orderVars, task_points,
                   submissions, args, results, notScoringVars>>

NextLure == AnalyzeLures

SpecLure == InitLure /\ [][NextLure]_vars

(***************************************************************************)
(* compute_composite_score.  Scores are in units of 1/Scale of a point.    *)
(* A result record has the fields level, composite_score and               *)
(* recognition_score, None for a key that the dictionary does not have.    *)
(***************************************************************************)
Domains == {"memory", "attention", "visuospatial", "recognition"}

\* ScoreWeights, in hundredths
Weights == [memory |-> 25, attention |-> 25, visuospatial |-> 30,
            recognition |-> 20]

\* the levels whose results are appended to the list of a domain
LevelsOf(domain) ==
    CASE domain = "memory" -> {2, 7}
      [] domain = "attention" -> {3, 4}
      [] domain = "visuospatial" -> {1, 6, 7}
      [] domain = "recognition" -> {5}

\* memory_levels, attention_levels, ...: the positions of the results
DomainLevels(rs, domain) ==
    {i \in 1..Len(rs) : rs[i].level \in LevelsOf(domain)}

\* s.get('composite_score', 0.0), for recognition the key
\* 'recognition_score' first
ScoreOf(r, domain) ==
    LET composite == IF r.composite_score = None THEN 0
                     ELSE r.composite_score
    IN IF domain = "recognition" /\ r.recognition_score # None
          THEN r.recognition_score
          ELSE composite

RECURSIVE SumOver(_, _, _)
SumOver(rs, idx, domain) ==
    IF idx = {} THEN 0
    ELSE LET i == CHOOSE j \in idx : TRUE
         IN ScoreOf(rs[i], domain) + SumOver(rs, idx \ {i}, domain)

\* a variant that gives an empty domain the middle of the scale
DomainScore_MidpointForEmpty(rs, domain) ==
    LET idx == DomainLevels(rs, domain)
    IN IF idx = {} THEN 50 * Scale
       ELSE (SumOver(rs, idx, domain) * Scale) \div Cardinality(idx)

\* compute_memory_score and its three siblings: 0.0 for an empty list,
\* else np.mean of the scores
DomainScore(rs, domain) ==
    LET idx == DomainLevels(rs, domain)
    IN IF idx = {} THEN 0
       ELSE (SumOver(rs, idx, domain) * Scale) \div Cardinality(idx)

RECURSIVE SumOf(_, _)
SumOf(f, D) ==
    IF D = {} THEN 0
    ELSE LET d == CHOOSE e \in D : TRUE IN f[d] + SumOf(f, D \ {d})

\* the weighted geometric mean is kept as a term over its four operands;
\* the arithmetic mean is computed
compute_composite_score(all_level_results) ==
    LET score == [d \in Domains |-> DomainScore(all_level_results, d)]
        available_scores == {d \in Domains : score[d] > 0}
        composite ==
            IF \A d \in Domains : score[d] > 0
               THEN [mean |-> "geometric", weights |-> Weights,
                     scores |-> score]
               ELSE [mean |-> "arithmetic",
                     value |-> IF available_scores # {}
                                  THEN SumOf(score, available_scores)
                                          \div Cardinality(available_scores)
                                  ELSE 0]
    IN [composite_score |-> composite,
        cognitive_profile |-> score,
        domain_breakdown |->
            [d \in Domains |->
                [score |-> score[d],
                 n_tests |-> Cardinality(DomainLevels(all_level_results, d))]]]

MaxResults == 3

ResultLevels == 0..8

ResultScores == {0, 60}

ResultRecords ==
    {[level |-> l, composite_score |-> c, recognition_score |-> None] :
        l \in ResultLevels, c \in ResultScores}
    \cup {[level |-> 5, composite_score |-> None, recognition_score |-> 90]}

ResultLists == UNION {[1..m -> ResultRecords] : m \in 0..MaxResults}

InitComposite ==
    /\ gen = "composite"
    /\ results \in ResultLists
    /\ task_points = <<>>
    /\ submissions = <<>>
    /\ args = <<>>
    /\ score_out = None
    /\ IdleOrder
    /\ IdleCall

CompositeScore ==
    /\ gen = "composite"
    /\ pc = "start"
    /\ score_out' = compute_composite_score(results)
    /\ pc' = "done"
    /\ UNCHANGED <<rngVars, gen, round, first_out, out, orderVars, task_points,
                   submissions, args, results, notScoringVars>>

NextComposite == CompositeScore

SpecComposite == InitComposite /\ [][NextComposite]_vars

(***************************************************************************)
(* The per-task scoring functions and the metrics they share.  A call      *)
(* returns [raised |-> "none", ...] or [raised |-> the exception].         *)
(* Scores are in units of 1/Scale of a point, ratios in units of 1/Scale.  *)
(***************************************************************************)
Raise(exception) == [raised |-> exception]

\* main.score_accuracy
score_accuracy(order, subs) ==
    LET n == Len(order)
        both == Min(Len(order), Len(subs))
        correct == CHOOSE k \in 0..both :
                      /\ \A i \in 1..k : order[i] = subs[i]
                      /\ k < both => order[k + 1] # subs[k + 1]
    IN IF n = 0 THEN Raise("ZeroDivisionError")
       ELSE [raised |-> "none", value |-> (correct * Scale) \div n]

RECURSIVE AtanIn(_, _, _, _)
\* the angle in [0, pi/2] of the direction (ax, ay), ax, ay >= 0, by
\* bisection on the sign of ay * cos - ax * sin
AtanIn(ay, ax, lo, hi) ==
    IF hi - lo <= 1 THEN lo
    ELSE LET mid == (lo + hi) \div 2
         IN IF ax * Sin(mid) <= ay * Cos(mid) THEN AtanIn(ay, ax, mid, hi)
                                              ELSE AtanIn(ay, ax, lo, mid)

\* math.atan2(y, x), in (-Pi, Pi]
Atan2(y, x) ==
    LET a == IF x = 0 /\ y = 0 THEN 0
             ELSE IF x = 0 THEN Pi \div 2
             ELSE AtanIn(Abs(y), Abs(x), 0, Pi \div 2 + 1)
    IN IF x >= 0 /\ y >= 0 THEN a
       ELSE IF x < 0 /\ y >= 0 THEN Pi - a
       ELSE IF x < 0 THEN a - Pi
       ELSE -a

\* math.degrees, in hundredths of a degree
Degrees(d) == (d * 18000) \div Pi

RECURSIVE SumSeq(_)
SumSeq(q) == IF q = <<>> THEN 0 ELSE Head(q) + SumSeq(Tail(q))

\* geometry_utils.compute_angular_deviation; points[idx] raises for an
\* index past the end of the list
compute_angular_deviation(submitted_path, order, P) ==
    IF Len(submitted_path) < 2 \/ Len(order) < 2
       THEN [raised |-> "none", value |-> 0]
    ELSE LET max_len == Min(Len(submitted_path) - 1, Len(order) - 1)
             used == {submitted_path[i] : i \in 1..(max_len + 1)}
                         \cup {order[i] : i \in 1..(max_len + 1)}
             dev(i) ==
                 LET p_u1 == P[submitted_path[i]]
                     p_u2 == P[submitted_path[i + 1]]
                     p_t1 == P[order[i]]
                     p_t2 == P[order[i + 1]]
                     angle_user == Atan2(p_u2[2] - p_u1[2], p_u2[1] - p_u1[1])
                     angle_true == Atan2(p_t2[2] - p_t1[2], p_t2[1] - p_t1[1])
                     diff == Abs(angle_user - angle_true)
                 IN Degrees(IF diff > Pi THEN 2 * Pi - diff ELSE diff)
         IN IF \E idx \in used : idx > Len(P)
               THEN Raise("IndexError")
               ELSE [raised |-> "none",
                     value |-> SumSeq([i \in 1..max_len |-> dev(i)])
                                   \div max_len]

\* the length of the polyline through the points q, in hundredths
PathLength(q) ==
    SumSeq([i \in 1..(Len(q) - 1) |->
               ISqrt(DistSq(q[i], q[i + 1]) * 10000)])

\* the points of the clicked indices that exist, in click order
UserPath(P, subs) ==
    LET hit == SelectSeq(subs, LAMBDA idx : idx \in 1..Len(P))
    IN [i \in 1..Len(hit) |-> P[hit[i]]]

\* the clicks that equal the true order at their position
CorrectCount(order, subs) ==
    Cardinality({i \in 1..Min(Len(order), Len(subs)) : subs[i] = order[i]})

\* scoring.score_level_1_tmt
score_level_1_tmt(P, subs, order, time_taken_ms) ==
    LET path_len == PathLength(UserPath(P, subs))
        optimal_len == PathLength(P)
        pei == IF path_len > 0
                  THEN Min(100 * Scale, ((optimal_len * Scale) \div path_len) * 100)
                  ELSE 0
        lure_data == analyze_delaunay_lures(P, order, subs)
        accuracy == IF order # <<>>
                       THEN (CorrectCount(order, subs) * Scale) \div Len(order)
                       ELSE 0
        score == accuracy * 50 + (pei * 3) \div 10
                     + (Scale - lure_data.lure_susceptibility) * 20
        expected_time == Len(order) * 1500
        time_ratio == Min((time_taken_ms * Scale) \div expected_time, 3 * Scale)
        time_score == Max(0, Scale - (time_ratio - Scale) \div 2)
    IN IF expected_time = 0 THEN Raise("ZeroDivisionError")
       ELSE [raised |-> "none",
             pei |-> pei,
             lure_susceptibility |-> lure_data.lure_susceptibility,
             accuracy |-> accuracy,
             score |-> Min(100 * Scale, score + time_score * 10)]

\* expansion rates are kept as multiples of 1/RateScale per second
RateScale == 6

RECURSIVE KineticLoop(_, _, _, _, _, _)
\* the loop over the sorted submissions from the second one on: the lists
\* rts (in seconds) and expansions
KineticLoop(kinetic_data, subs, start_time_ms, i, last_t, acc) ==
    IF i > Len(subs) THEN acc
    ELSE LET current_t == (subs[i] - start_time_ms) \div 1000
             rt == current_t - last_t
             relevant_areas ==
                 SelectSeq(kinetic_data,
                           LAMBDA d : d.t >= last_t /\ d.t <= current_t)
             area_change == relevant_areas[Len(relevant_areas)].area
                                - relevant_areas[1].area
         IN IF rt <= 0 \/ Len(relevant_areas) <= 1
               THEN KineticLoop(kinetic_data, subs, start_time_ms, i + 1,
                                current_t, acc)
               ELSE KineticLoop(kinetic_data, subs, start_time_ms, i + 1,
                                current_t,
                                [rts |-> Append(acc.rts, rt),
                                 expansions |->
                                     Append(acc.expansions,
                                            (area_change * RateScale) \div rt)])

\* np.corrcoef(x, y)[0, 1], 0.0 where numpy gives nan
Corrcoef(x, y) ==
    LET n == Len(x)
        sx == SumSeq(x)
        sy == SumSeq(y)
        cov == n * SumSeq([i \in 1..n |-> x[i] * y[i]]) - sx * sy
        varx == n * SumSeq([i \in 1..n |-> x[i] * x[i]]) - sx * sx
        vary == n * SumSeq([i \in 1..n |-> y[i] * y[i]]) - sy * sy
    IN IF varx = 0 \/ vary = 0 THEN 0
       ELSE (cov * Scale * 100) \div ISqrt(varx * vary * 10000)

\* scoring.analyze_kinetic_hull; the empty dictionary is [empty |-> TRUE]
analyze_kinetic_hull(kinetic_data, subs, start_time_ms) ==
    IF kinetic_data = <<>> \/ Len(subs) < 2 \/ Len(kinetic_data) < 2
       THEN [empty |-> TRUE, hull_rt_correlation |-> 0]
    ELSE LET sorted_subs == SortSeq(subs, LAMBDA a, b : a < b)
             first_t == (sorted_subs[1] - start_time_ms) \div 1000
             r == KineticLoop(kinetic_data, sorted_subs, start_time_ms, 2,
                              first_t, [rts |-> <<>>, expansions |-> <<>>])
         IN IF Len(r.rts) < 3
               THEN [empty |-> FALSE, hull_rt_correlation |-> 0]
               ELSE [empty |-> FALSE,
                     hull_rt_correlation |-> Corrcoef(r.expansions, r.rts)]

\* scoring.score_level_3_attention
score_level_3_attention(kinetic_data, subs, start_time_ms, mistakes) ==
    LET hull_analysis == analyze_kinetic_hull(kinetic_data, subs, start_time_ms)
        tunnel_vision_risk == hull_analysis.hull_rt_correlation
        base_score == Max(0, 100 - mistakes * 10)
    IN [raised |-> "none",
        hull_rt_correlation |-> tunnel_vision_risk,
        score |-> (IF tunnel_vision_risk > Scale \div 2 THEN base_score - 20
                                                        ELSE base_score)
                      * Scale]

\* scoring.score_level_4_combined; hull_metrics.get('hull_growth', 0)
score_level_4_combined(order, subs, time_taken_ms, kinetic_data) ==
    LET accuracy == IF order # <<>>
                       THEN (CorrectCount(order, subs) * Scale) \div Len(order)
                       ELSE 0
        hull_growth ==
            IF kinetic_data # <<>>
               THEN ((kinetic_data[Len(kinetic_data)].area
                         - kinetic_data[1].area) * Scale * 10)
                        \div Max(1, kinetic_data[1].area * 10)
               ELSE 0
        expected_ms == Len(order) * 2000
        time_score == Min(Scale, (expected_ms * Scale) \div Max(1, time_taken_ms))
        score == accuracy * 60 + time_score * 30
        penalised == IF hull_growth > Scale \div 2 THEN score - 10 * Scale
                                                   ELSE score
    IN [raised |-> "none",
        accuracy |-> accuracy,
        score |-> Max(0, Min(100 * Scale, penalised)),
        hull_growth |-> hull_growth]

MaxTaskClicks == 2

MaxMistakes == 10

\* a convex quadrilateral, and no points
TaskPointLists == {<<<<0, 0>>, <<10, 0>>, <<12, 9>>, <<0, 10>>>>, <<>>}

\* true orders over four vertices, and the empty order
TaskOrders == VisitingOrders(4) \cup {<<>>}

\* click sequences over four vertices; index 5 refers to no vertex
TaskClicks == UNION {[1..m -> 1..5] : m \in 0..MaxTaskClicks}

TaskTimes == {0, 3000, 30000}

\* hull areas sampled once a second for six seconds
KineticLists ==
    {[i \in 1..7 |-> [t |-> i - 1, area |-> a[i]]] : a \in [1..7 -> {1, 3}]}
    \cup {<<>>}

\* click timestamps in ms; the last list is not in time order
ClickTimes == {<<>>, <<0, 1000>>, <<0, 1000, 3000, 6000>>,
               <<6000, 0, 3000, 1000>>}

TaskCalls ==
    {[fn |-> "score_level_1_tmt", P |-> P, order |-> o, subs |-> c,
      a |-> [time_taken_ms |-> t]] :
        P \in TaskPointLists, o \in TaskOrders, c \in TaskClicks,
        t \in TaskTimes}
    \cup {[fn |-> "score_level_3_attention", P |-> <<>>, order |-> <<>>,
           subs |-> c,
           a |-> [kinetic_data |-> k, start_time_ms |-> 0, mistakes |-> m]] :
             c \in ClickTimes, k \in KineticLists, m \in 0..MaxMistakes}
    \cup {[fn |-> "score_level_4_combined", P |-> <<>>, order |-> o,
           subs |-> c,
           a |-> [time_taken_ms |-> t, kinetic_data |-> k,
                  start_time_ms |-> 0]] :
             o \in VisitingOrders(2) \cup {<<>>}, c \in TaskClicks,
             t \in TaskTimes,
             k \in {<<>>, <<[t |-> 0, area |-> 1], [t |-> 1, area |-> 3]>>,
                    <<[t |-> 0, area |-> 3], [t |-> 1, area |-> 1]>>}}
    \cup {[fn |-> "score_accuracy", P |-> <<>>, order |-> o, subs |-> c,
           a |-> <<>>] : o \in TaskOrders, c \in TaskClicks}
    \cup {[fn |-> "compute_angular_deviation", P |-> P, order |-> o,
           subs |-> c, a |-> <<>>] :
             P \in TaskPointLists, o \in TaskOrders, c \in TaskClicks}

InitTask ==
    /\ gen \in {"score_level_1_tmt", "score_level_3_attention",
                "score_level_4_combined", "score_accuracy",
                "compute_angular_deviation"}
    /\ \E call \in TaskCalls :
          /\ call.fn = gen
          /\ task_points = call.P
          /\ true_order = call.order
          /\ submissions = call.subs
          /\ args = call.a
    /\ results = <<>>
    /\ score_out = None
    /\ submitted_order = <<>>
    /\ other_order = <<>>
    /\ similarity = None
    /\ other_similarity = None
    /\ IdleCall

\* what a scoring call leaves alone
TaskInputs == <<rngVars, gen, round, first_out, out, orderVars, task_points,
                submissions, args, results, notScoringVars>>

ScoreLevel1 ==
    /\ gen = "score_level_1_tmt"
    /\ pc = "start"
    /\ score_out' = score_level_1_tmt(task_points, submissions, true_order,
                                      args.time_taken_ms)
    /\ pc' = "done"
    /\ UNCHANGED TaskInputs

ScoreLevel3 ==
    /\ gen = "score_level_3_attention"
    /\ pc = "start"
    /\ score_out' = score_level_3_attention(args.kinetic_data, submissions,
                                            args.start_time_ms, args.mistakes)
    /\ pc' = "done"
    /\ UNCHANGED TaskInputs

ScoreLevel4 ==
    /\ gen = "score_level_4_combined"
    /\ pc = "start"
    /\ score_out' = score_level_4_combined(true_order, submissions,
                                           args.time_taken_ms,
                                           args.kinetic_data)
    /\ pc' = "done"
    /\ UNCHANGED TaskInputs

ScoreAccuracy ==
    /\ gen = "score_accuracy"
    /\ pc = "start"
    /\ score_out' = score_accuracy(true_order, submissions)
    /\ pc' = "done"
    /\ UNCHANGED TaskInputs

AngularDeviation ==
    /\ gen = "compute_angular_deviation"
    /\ pc = "start"
    /\ score_out' = compute_angular_deviation(submissions, true_order,
                                              task_points)
    /\ pc' = "done"
    /\ UNCHANGED TaskInputs

NextTask ==
    \/ ScoreLevel1
    \/ ScoreLevel3
    \/ ScoreLevel4
    \/ ScoreAccuracy
    \/ AngularDeviation

SpecTask == InitTask /\ [][NextTask]_vars

(***************************************************************************)
(* score_level_1_tmt on the responses of generate_polygon: the polygon's   *)
(* vertices in boundary order, any assignment of vertex indices to the     *)
(* boundary positions, and a submission that follows the true order or     *)
(* runs against it.                                                        *)
(***************************************************************************)
\* boundaries of four vertices: a near square and a long flat quadrilateral
BoundaryPolygons ==
    {<<<<0, 0>>, <<10, 0>>, <<12, 9>>, <<0, 10>>>>,
     <<<<0, 0>>, <<100, 0>>, <<101, 10>>, <<0, 11>>>>}

\* the list of points by index: the vertex at boundary position i has the
\* index order[i]
PointsByIndex(boundary, order) ==
    [k \in 1..Len(boundary) |->
        boundary[CHOOSE i \in 1..Len(order) : order[i] = k]]

InitTmt ==
    /\ gen = "score_level_1_tmt"
    /\ true_order \in VisitingOrders(4)
    /\ task_points \in {PointsByIndex(b, true_order) : b \in BoundaryPolygons}
    /\ submissions \in {true_order, Reverse(true_order)}
    /\ args \in {[time_taken_ms |-> t] : t \in TaskTimes}
    /\ results = <<>>
    /\ score_out = None
    /\ submitted_order = <<>>
    /\ other_order = <<>>
    /\ similarity = None
    /\ other_similarity = None
    /\ IdleCall

NextTmt == ScoreLevel1

SpecTmt == InitTmt /\ [][NextTmt]_vars

(***************************************************************************)
(* geometry_utils.compute_alpha_metrics. Coordinates are in hundredths of  *)
(* the unit square, lengths in hundredths, and the returned values in      *)
(* units of 1/Scale of a hundredth. The winding of the simplices that the  *)
(* triangulation returns is an input: counterclockwise or clockwise.       *)
(***************************************************************************)
\* tri.simplices in the winding w: the simplex's vertices in cyclic order
OrientedSimplex(P, t, w) ==
    IF (Cross(P[t[1]], P[t[2]], P[t[3]]) > 0) = (w = "ccw")
       THEN t
       ELSE <<t[1], t[3], t[2]>>

\* the loop "for i in range(3): u, v = simplex[i], simplex[(i+1)%3];
\* if u < v": the sides of the simplices that run upwards in index
AlphaEdges(P, w) ==
    UNION {LET s == OrientedSimplex(P, t, w)
           IN {e \in {<<s[1], s[2]>>, <<s[2], s[3]>>, <<s[3], s[1]>>} :
                  e[1] < e[2]}
           : t \in DelaunayTriangles(P)}

AlphaEdgeKey(P, e) == Dist(P[e[1]], P[e[2]]) * 10000 + e[1] * 100 + e[2]

\* edges.sort(): the (dist, u, v) triples in ascending order
SortedAlphaEdges(P, w) ==
    LET E == AlphaEdges(P, w)
        ks == SortInts({AlphaEdgeKey(P, e) : e \in E})
    IN [i \in 1..Len(ks) |->
           LET e == CHOOSE e \in E : AlphaEdgeKey(P, e) = ks[i]
           IN [w |-> Dist(P[e[1]], P[e[2]]), u |-> e[1], v |-> e[2]]]

RECURSIVE find(_, _)
\* find(i) with path compression: the root and the parent array it leaves
find(parent, i) ==
    IF parent[i] = i THEN [root |-> i, parent |-> parent]
    ELSE LET r == find(parent, parent[i])
         IN [root |-> r.root, parent |-> [r.parent EXCEPT ![i] = r.root]]

\* union(i, j): whether it joined two components, and the parent array
union(parent, i, j) ==
    LET fi == find(parent, i)
        fj == find(fi.parent, j)
    IN IF fi.root # fj.root
          THEN [joined |-> TRUE,
                parent |-> [fj.parent EXCEPT ![fi.root] = fj.root]]
          ELSE [joined |-> FALSE, parent |-> fj.parent]

RECURSIVE Kruskal(_, _, _, _)
\* the loop "for w, u, v in edges", from edge k on: max_mst_edge
Kruskal(edges, k, parent, max_mst_edge) ==
    IF k > Len(edges) THEN max_mst_edge
    ELSE LET r == union(parent, edges[k].u, edges[k].v)
         IN Kruskal(edges, k + 1, r.parent,
                    IF r.joined THEN Max(max_mst_edge, edges[k].w)
                                ELSE max_mst_edge)

\* alpha_threshold = 0.15, in hundredths
AlphaThreshold == 15

\* r = abc / (4 area) < alpha_threshold, with 4 area = 2 |cross|
CircumradiusBelow(P, t) ==
    LET a == Dist(P[t[1]], P[t[2]])
        b == Dist(P[t[2]], P[t[3]])
        c == Dist(P[t[3]], P[t[1]])
    IN a * b * c < AlphaThreshold * 2 * Abs(Cross(P[t[1]], P[t[2]], P[t[3]]))

compute_alpha_metrics(P, w) ==
    IF Len(P) < 3 \/ DelaunayFails(P)
       THEN [critical_alpha |-> 0, alpha_area |-> 0]
    ELSE LET tris == Delaunay(P)
             max_mst_edge == Kruskal(SortedAlphaEdges(P, w), 1,
                                     [i \in 1..Len(P) |-> i], 0)
             areas == [i \in 1..Len(tris) |->
                          IF CircumradiusBelow(P, tris[i])
                             THEN (Abs(Cross(P[tris[i][1]], P[tris[i][2]],
                                             P[tris[i][3]])) * Scale) \div 2
                             ELSE 0]
         IN [critical_alpha |-> (max_mst_edge * Scale) \div 2,
             alpha_area |-> SumSeq(areas)]

MaxAlphaPoints == 3

\* the vertices that the point lists are drawn from
AlphaGrid == {<<0, 0>>, <<30, 0>>, <<80, 0>>, <<0, 40>>, <<30, 40>>,
              <<80, 40>>}

\* every list of two to MaxAlphaPoints grid points, and two lists of four
\* points in general position
AlphaPointLists ==
    UNION {[1..m -> AlphaGrid] : m \in 2..MaxAlphaPoints}
        \cup {<<<<0, 0>>, <<10, 0>>, <<12, 9>>, <<0, 10>>>>,
              <<<<0, 0>>, <<12, 0>>, <<5, 11>>, <<6, 4>>>>}

InitAlpha ==
    /\ gen = "alpha"
    /\ task_points \in AlphaPointLists
    /\ args \in {[winding |-> w] : w \in {"ccw", "cw"}}
    /\ true_order = <<>>
    /\ submissions = <<>>
    /\ results = <<>>
    /\ score_out = None
    /\ submitted_order = <<>>
    /\ other_order = <<>>
    /\ similarity = None
    /\ other_similarity = None
    /\ IdleCall

AlphaMetrics ==
    /\ gen = "alpha"
    /\ pc = "start"
    /\ score_out' = compute_alpha_metrics(task_points, args.winding)
    /\ pc' = "done"
    /\ UNCHANGED TaskInputs

NextAlpha == AlphaMetrics

SpecAlpha == InitAlpha /\ [][NextAlpha]_vars

(***************************************************************************)
(* scoring.score_level_6_intersection. Times are in milliseconds, the      *)
(* accuracies in units of 1/Scale, the detection score in units of 1/Scale *)
(* of a point.                                                             *)
(***************************************************************************)
\* a variant whose plateau ends at 100 ms
timing_accuracy_ShortPlateau(time_diff_ms) ==
    LET raw == IF time_diff_ms <= 100 THEN Scale
               ELSE IF time_diff_ms <= 1000
                  THEN 9 * (Scale \div 10)
                         - (4 * (Scale \div 10) * (time_diff_ms - 100)) \div 900
               ELSE IF time_diff_ms <= 2000
                  THEN 5 * (Scale \div 10)
                         - (3 * (Scale \div 10) * (time_diff_ms - 1000)) \div 1000
               ELSE Max(0, 2 * (Scale \div 10)
                         - (2 * (Scale \div 10) * (time_diff_ms - 2000)) \div 3000)
    IN Max(0, Min(Scale, raw))

\* the banded decay of timing_accuracy in the time difference
timing_accuracy(time_diff_ms) ==
    LET raw == IF time_diff_ms <= 200 THEN Scale
               ELSE IF time_diff_ms <= 1000
                  THEN 9 * (Scale \div 10)
                         - (4 * (Scale \div 10) * (time_diff_ms - 200)) \div 800
               ELSE IF time_diff_ms <= 2000
                  THEN 5 * (Scale \div 10)
                         - (3 * (Scale \div 10) * (time_diff_ms - 1000)) \div 1000
               ELSE Max(0, 2 * (Scale \div 10)
                         - (2 * (Scale \div 10) * (time_diff_ms - 2000)) \div 3000)
    IN Max(0, Min(Scale, raw))

score_level_6_intersection(detection_time_ms, actual_intersection_time_ms, estimated_area, actual_area) ==
    LET time_diff_ms == Abs(detection_time_ms - actual_intersection_time_ms)
        ta == timing_accuracy(time_diff_ms)
        has_area == estimated_area # None /\ actual_area # None
                       /\ actual_area > 0
        area_score == Max(0, Scale - (Abs(estimated_area - actual_area) * Scale)
                                         \div actual_area)
    IN IF has_area
          THEN [timing_accuracy |-> ta,
                area_accuracy |-> area_score,
                detection_score |-> ta * 70 + area_score * 30]
          ELSE [timing_accuracy |-> ta,
                detection_score |-> ta * 100]

\* detection and intersection times around the ends of the bands
Level6Times == {0, 200, 201, 1000, 1001, 2000, 3000, 8000}

\* (estimated_area, actual_area): absent, exact, off by half, no area
Level6Areas == {<<None, None>>, <<100, 100>>, <<50, 100>>, <<100, 0>>}

InitLevel6 ==
    /\ gen = "score_level_6_intersection"
    /\ args \in {[detection_time_ms |-> d, actual_intersection_time_ms |-> a,
                  other_detection_time_ms |-> od,
                  other_actual_intersection_time_ms |-> oa,
                  estimated_area |-> ar[1], actual_area |-> ar[2]] :
                    d \in Level6Times, a \in Level6Times,
                    od \in Level6Times, oa \in Level6Times,
                    ar \in Level6Areas}
    /\ task_points = <<>>
    /\ true_order = <<>>
    /\ submissions = <<>>
    /\ results = <<>>
    /\ score_out = None
    /\ submitted_order = <<>>
    /\ other_order = <<>>
    /\ similarity = None
    /\ other_similarity = None
    /\ IdleCall

\* the function is applied to each pair of times
ScoreLevel6 ==
    /\ gen = "score_level_6_intersection"
    /\ pc = "start"
    /\ score_out' =
           <<score_level_6_intersection(args.detection_time_ms,
                 args.actual_intersection_time_ms,
                 args.estimated_area, args.actual_area),
             score_level_6_intersection(args.other_detection_time_ms,
                 args.other_actual_intersection_time_ms,
                 args.estimated_area, args.actual_area)>>
    /\ pc' = "done"
    /\ UNCHANGED TaskInputs

NextLevel6 == ScoreLevel6

SpecLevel6 == InitLevel6 /\ [][NextLevel6]_vars

(***************************************************************************)
(* scoring.score_level_5_recognition, called by main.grade_level_5. Times  *)
(* are in milliseconds, the partial scores in units of 1/Scale, the        *)
(* recognition score in units of 1/Scale of a point.                       *)
(***************************************************************************)
\* math.exp(x) for x in [-1, 1], x and the result in units of 1/Scale
Exp(x) ==
    LET term[k \in 0..10] ==
            IF k = 0 THEN Scale ELSE (term[k - 1] * x) \div (Scale * k)
        sum[k \in 0..10] ==
            IF k = 0 THEN term[0] ELSE sum[k - 1] + term[k]
    IN sum[10]

\* a variant that expects the answer within 5 seconds
Level5TimeScore_Expected5s(reaction_time_ms) ==
    LET expected_time == 5000
        time_ratio == Min((reaction_time_ms * Scale) \div expected_time,
                          3 * Scale)
        time_score == Exp(-((time_ratio - Scale) \div 2))
    IN Max(0, Min(Scale, time_score))

\* time_score: exponential decay in the ratio to the expected 15 seconds
Level5TimeScore(reaction_time_ms) ==
    LET expected_time == 15000
        time_ratio == Min((reaction_time_ms * Scale) \div expected_time,
                          3 * Scale)
        time_score == Exp(-((time_ratio - Scale) \div 2))
    IN Max(0, Min(Scale, time_score))

score_level_5_recognition(correct, reaction_time_ms, confidence_rating) ==
    LET correctness == IF correct THEN Scale ELSE 0
        time_score == Level5TimeScore(reaction_time_ms)
        confidence_normalized == (confidence_rating * Scale) \div 5
        confidence_score ==
            Max(0, Min(Scale,
                IF correct
                   THEN Scale \div 2 + confidence_normalized \div 2
                   ELSE Scale \div 2 - confidence_normalized \div 2))
        recognition == IF correct
                          THEN 60 * correctness + 25 * time_score
                                   + 15 * confidence_score
                          ELSE 0
    IN [correctness |-> correctness,
        time_score |-> time_score,
        confidence_score |-> confidence_score,
        recognition_score |-> recognition]

\* grade_level_5: the response to a Level5GradeRequest
grade_level_5(request) ==
    LET correct == request.selected_index = request.target_index
        scores == score_level_5_recognition(correct, request.reaction_time_ms,
                                            request.confidence_rating)
    IN [correctness |-> scores.correctness,
        time_score |-> scores.time_score,
        confidence_score |-> scores.confidence_score,
        recognition_score |-> scores.recognition_score,
        correct |-> correct]

MaxShapeIndex == 3

\* reaction times up to, at and past the expected 15 seconds
ReactionTimes == {0, 2000, 15000, 15001, 30000, 45000, 60000, 100000}

\* Level5GradeRequest: confidence_rating is validated to lie in 1..5
Level5GradeRequests ==
    [target_index : 0..MaxShapeIndex, selected_index : 0..MaxShapeIndex,
     reaction_time_ms : ReactionTimes, confidence_rating : 1..5]

InitGrade5 ==
    /\ gen = "grade_level_5"
    /\ args \in Level5GradeRequests
    /\ task_points = <<>>
    /\ true_order = <<>>
    /\ submissions = <<>>
    /\ results = <<>>
    /\ score_out = None
    /\ submitted_order = <<>>
    /\ other_order = <<>>
    /\ similarity = None
    /\ other_similarity = None
    /\ IdleCall

GradeLevel5 ==
    /\ gen = "grade_level_5"
    /\ pc = "start"
    /\ score_out' = grade_level_5(args)
    /\ pc' = "done"
    /\ UNCHANGED TaskInputs

NextGrade5 == GradeLevel5

SpecGrade5 == InitGrade5 /\ [][NextGrade5]_vars

(***************************************************************************)
(* main.grade with the scoring functions it calls. A point's index is its  *)
(* position in the list of points; scores and distances are in units of    *)
(* 1/Scale.                                                                *)
(***************************************************************************)
\* scoring.score_level_2_memory
score_level_2_memory(order, subs, P) ==
    LET acc == IF order # <<>>
                  THEN (CorrectCount(order, subs) * Scale) \div Len(order)
                  ELSE 0
        target_set == UserPath(P, order)
        user_set == UserPath(P, subs)
        h_dist == calculate_hausdorff_distance(target_set, user_set)
        spatial_score == Max(0, 100 * Scale - h_dist \div 3)
    IN [raised |-> "none",
        accuracy |-> acc,
        hausdorff_distance |-> h_dist,
        score |-> acc * 60 + (spatial_score * 4) \div 10]

\* main.score_time: 1 / ratio, the ratio clamped to [0.25, 4]
score_time(start_ms, end_ms, expected_ms) ==
    LET duration == Max(1, end_ms - start_ms)
        expected == IF expected_ms = None THEN duration ELSE expected_ms
    IN IF expected = 0 THEN Raise("ZeroDivisionError")
       ELSE LET ratio == Min(Max((duration * Scale) \div expected,
                                 Scale \div 4), 4 * Scale)
            IN [raised |-> "none", value |-> (Scale * Scale) \div ratio]

\* the GradeResponse of the levels 1 to 4, or the exception of the scorer
LevelResponse(scores) ==
    IF scores.raised # "none" THEN scores
    ELSE [raised |-> "none",
          accuracy_score |-> 0,
          time_score |-> 0,
          attention_score |-> 0,
          composite_score |-> scores.score]

\* the else branch of grade: misclicks and total_clicks are names that the
\* function never binds, so building the arguments of score_attention
\* raises NameError
GenericScore(request, clicks) ==
    LET acc == score_accuracy(request.true_order, clicks)
        expected_ms == 1500 * Len(request.true_order)
        time_sc == score_time(request.start_time_ms, request.end_time_ms,
                              expected_ms)
    IN IF acc.raised # "none" THEN acc
       ELSE IF time_sc.raised # "none" THEN time_sc
       ELSE Raise("NameError")

\* main.grade
grade(request) ==
    LET clicks == [i \in 1..Len(request.submissions) |->
                           request.submissions[i].selected_index]
        timestamps == [i \in 1..Len(request.submissions) |->
                          request.submissions[i].timestamp_ms]
        mistakes == IF request.mistakes = None THEN 0 ELSE request.mistakes
        time_taken == request.end_time_ms - request.start_time_ms
    IN IF Len(clicks) = 0
          THEN [raised |-> "HTTPException", status_code |-> 400]
       ELSE IF request.level = 1
          THEN LevelResponse(score_level_1_tmt(request.points, clicks,
                                 request.true_order, time_taken))
       ELSE IF request.level = 2
          THEN LevelResponse(score_level_2_memory(request.true_order,
                                 clicks, request.points))
       ELSE IF request.level = 3
          THEN LevelResponse(score_level_3_attention(request.kinetic_data,
                                 timestamps, request.start_time_ms, mistakes))
       ELSE IF request.level = 4
          THEN LevelResponse(score_level_4_combined(request.true_order,
                                 clicks, time_taken,
                                 request.kinetic_data))
       ELSE GenericScore(request, clicks)

\* GradeRequest: level is validated to lie in 1..8
MaxGradeClicks == 2

GradeRequests ==
    {[level |-> l, true_order |-> o,
      submissions |-> [i \in 1..Len(c) |->
                          [selected_index |-> c[i], timestamp_ms |-> 1000 * i]],
      start_time_ms |-> 0, end_time_ms |-> e, mistakes |-> m,
      kinetic_data |-> k, points |-> P] :
        l \in 1..8,
        o \in {<<>>, <<1, 2, 3, 4>>, <<2, 1, 4, 3>>},
        c \in UNION {[1..n -> 1..5] : n \in 0..MaxGradeClicks},
        e \in TaskTimes,
        m \in {None, 2},
        k \in {<<>>, <<[t |-> 0, area |-> 1], [t |-> 1, area |-> 3]>>},
        P \in TaskPointLists}

InitGrade ==
    /\ gen = "grade"
    /\ args \in GradeRequests
    /\ task_points = <<>>
    /\ true_order = <<>>
    /\ submissions = <<>>
    /\ results = <<>>
    /\ score_out = None
    /\ submitted_order = <<>>
    /\ other_order = <<>>
    /\ similarity = None
    /\ other_similarity = None
    /\ IdleCall

Grade ==
    /\ gen = "grade"
    /\ pc = "start"
    /\ score_out' = grade(args)
    /\ pc' = "done"
    /\ UNCHANGED TaskInputs

NextGrade == Grade

SpecGrade == InitGrade /\ [][NextGrade]_vars

(***************************************************************************)
(* Level5Manager.get_task: a target, its distractors and their shuffle.    *)
(* The draws of the random module are read off py_rng.                     *)
(***************************************************************************)
\* random.choice: seq[randbelow(len(seq))]
choice(seq, s) ==
    LET s1 == RngNext(s)
    IN [val |-> seq[Randint(s1, Len(seq)) + 1], rng |-> s1]

\* random.sample: k draws from a pool, the drawn slot refilled from the end
RECURSIVE SamplePool(_, _, _, _, _)
SamplePool(pool, i, k, result, s) ==
    IF i >= k THEN [val |-> result, rng |-> s]
    ELSE LET n == Len(pool)
             s1 == RngNext(s)
             j == Randint(s1, n - i)
         IN SamplePool([pool EXCEPT ![j + 1] = pool[n - i]], i + 1, k,
                       Append(result, pool[j + 1]), s1)

sample(population, k, s) == SamplePool(population, 0, k, <<>>, s)

\* random.shuffle: for i from the last slot down to the second, swap slot i
\* with a drawn slot j <= i
RECURSIVE ShuffleFrom(_, _, _)
ShuffleFrom(x, i, s) ==
    IF i < 1 THEN [val |-> x, rng |-> s]
    ELSE LET s1 == RngNext(s)
             j == Randint(s1, i + 1)
         IN ShuffleFrom([x EXCEPT ![i + 1] = x[j + 1], ![j + 1] = x[i + 1]],
                        i - 1, s1)

shuffle(x, s) == ShuffleFrom(x, Len(x) - 1, s)

\* a variant that keeps the target among the other shapes
other_shapes_WithTarget(shapes, target_shape) == shapes

\* other_shapes: the shapes whose name differs from the target's
other_shapes(shapes, target_shape) ==
    SelectSeq(shapes, LAMBDA sh : sh.name # target_shape.name)

\* the fallback shape of an empty library
mock_tri == [name |-> "Triangle",
             points |-> <<<<2, 8>>, <<8, 8>>, <<5, 2>>>>]

\* get_task(num_distractors, seed) on the loaded shapes, from generator
\* state s: the returned task and the state the generator is left in
get_task(shapes, num_distractors, seed, s) ==
    IF shapes = <<>>
       THEN [task |-> [target_index |-> 0, shapes |-> <<mock_tri>>,
                       target_name |-> "Triangle"],
             rng |-> s]
    ELSE LET s0 == IF seed # None THEN RngSeed(seed) ELSE s
             c == choice(shapes, s0)
             target_shape == c.val
             others == other_shapes(shapes, target_shape)
             d == IF Len(others) < num_distractors
                     THEN [val |-> others, rng |-> c.rng]
                     ELSE sample(others, num_distractors, c.rng)
             sh == shuffle(d.val \o <<target_shape>>, d.rng)
             all_options == sh.val
             hits == {i \in 1..Len(all_options) :
                        all_options[i].name = target_shape.name}
             target_index == IF hits = {} THEN -1
                             ELSE (CHOOSE i \in hits :
                                     \A k \in hits : i <= k) - 1
         IN [task |-> [target_index |-> target_index,
                       shapes |-> all_options,
                       target_name |-> target_shape.name],
             rng |-> sh.rng]

\* the shape files of a library: names are file names, so they are distinct
ShapeFiles ==
    <<[name |-> "Castle", points |-> <<<<1, 1>>, <<9, 1>>, <<9, 9>>, <<1, 9>>>>],
      [name |-> "Star", points |-> <<<<5, 1>>, <<9, 9>>, <<1, 4>>>>],
      [name |-> "House", points |-> <<<<1, 1>>, <<9, 1>>, <<5, 9>>>>],
      [name |-> "Tree", points |-> <<<<5, 1>>, <<5, 9>>>>],
      [name |-> "Boat", points |-> <<<<1, 5>>, <<9, 5>>, <<5, 1>>>>],
      [name |-> "Fish", points |-> <<<<1, 5>>, <<9, 1>>, <<9, 9>>>>]>>

MaxShapes == 4
MaxDistractors == 3
TaskSeeds == {None} \cup 0..31

\* the libraries: the first files in the order glob lists them
ShapeLibraries ==
    {SubSeq(ShapeFiles, 1, n) : n \in 0..MaxShapes}
        \cup {Reverse(SubSeq(ShapeFiles, 1, n)) : n \in 0..MaxShapes}

InitLevel5Task ==
    /\ gen = "get_task"
    /\ args \in [shapes : ShapeLibraries,
                 num_distractors : 0..MaxDistractors,
                 seed : TaskSeeds]
    /\ task_points = <<>>
    /\ true_order = <<>>
    /\ submissions = <<>>
    /\ results = <<>>
    /\ score_out = None
    /\ submitted_order = <<>>
    /\ other_order = <<>>
    /\ similarity = None
    /\ other_similarity = None
    /\ np_rng = 0
    /\ py_rng \in PriorStates
    /\ pc = "start"
    /\ round = 1
    /\ first_out = "none"
    /\ out = "none"
    /\ IdlePeel
    /\ IdleConvex
    /\ IdleMaze
    /\ IdleConc
    /\ IdleMetric

GetTask ==
    /\ gen = "get_task"
    /\ pc = "start"
    /\ LET r == get_task(args.shapes, args.num_distractors, args.seed, py_rng)
       IN /\ score_out' = r.task
          /\ py_rng' = r.rng
    /\ pc' = "done"
    /\ UNCHANGED <<np_rng, gen, round, first_out, out, orderVars, task_points,
                   submissions, args, results, notScoringVars>>

NextLevel5Task == GetTask

SpecLevel5Task == InitLevel5Task /\ [][NextLevel5Task]_vars

(***************************************************************************)
(* Properties of the peel generator.                                       *)
(***************************************************************************)
EdgeVertices(E) == {e[1] : e \in E} \cup {e[2] : e \in E}

Degree(E, v) == Cardinality({e \in E : v \in {e[1], e[2]}})

RECURSIVE ReachVia(_, _)
ReachVia(E, R) ==
    LET R1 == R \cup {e[2] : e \in {f \in E : f[1] \in R}}
                \cup {e[1] : e \in {f \in E : f[2] \in R}}
    IN IF R1 = R THEN R ELSE ReachVia(E, R1)

\* the edges form one simple cycle: every vertex on two edges, one component
SimpleCycle(E) ==
    /\ E # {}
    /\ \A v \in EdgeVertices(E) : Degree(E, v) = 2
    /\ LET v0 == CHOOSE v \in EdgeVertices(E) : TRUE
       IN ReachVia(E, {v0}) = EdgeVertices(E)

BoundaryNow == get_boundary_edges(simplices, active_mask)

\* the request asks for V vertices and the generator samples V + 8 points
PlainRequest == NPoints(req) = Desired(req) + 8

\* C1: a peeled polygon returned for desired vertex count V, sampled from
\* V + 8 points, has between V - 1 and V + 1 vertices
C1_VertexCountWithinOne ==
    (pc = "done" /\ PlainRequest /\ Desired(req) >= 5)
        => /\ out.status = 200
           /\ Len(out.boundary) >= Desired(req) - 1
           /\ Len(out.boundary) <= Desired(req) + 1

\* C2: after every deactivation in the peel loop the boundary edges of the
\* active mesh form a single simple cycle
C2_BoundaryStaysSimpleCycle ==
    (pc = "peel" /\ iter > 0) => SimpleCycle(BoundaryNow)

\* the chain ended before covering the boundary, or never closed
MalformedChain ==
    \/ chain_end \in {"budget", "dead_end"}
    \/ chain_end = "closed" /\ Range(path) # EdgeVertices(BoundaryNow)

\* C3: a malformed chain is discarded, it is never the returned boundary
C3_MalformedChainDiscarded ==
    (pc = "done" /\ MalformedChain) => out.boundary # path

\* the convex hull boundary of the sample: boundary of the whole mesh
HullVertices == EdgeVertices(get_boundary_edges(simplices,
                                 [i \in 1..Len(simplices) |-> TRUE]))

\* C4: when no peelable triangle is left before the target is reached, the
\* result is not the under-sized boundary of that attempt: it reaches the
\* target (a retry succeeded) or is the convex hull of the sample
C4_FailedAttemptNotReturned ==
    (pc = "done" /\ loop_exit = "no_candidate")
        => \/ Len(out.boundary) >= Desired(req)
           \/ Range(out.boundary) = HullVertices

C23_PeelDeactivatesSingleEdgeTriangle ==
    [][(gen = "polygon" /\ pc = "peel")
          => /\ simplices' = simplices
             /\ Len(active_mask') = Len(simplices)
             /\ \A i \in 1..Len(simplices) :
                   ~active_mask[i] => ~active_mask'[i]
             /\ LET off == {i \in 1..Len(simplices) :
                               active_mask[i] /\ ~active_mask'[i]}
                IN /\ Cardinality(off) <= 1
                   /\ \A i \in off :
                         BCount(simplices[i], BoundaryNow) = 1]_vars

\* a triangle has been deactivated while an active triangle with two
\* boundary edges was left in the mesh
C23_Witness ==
    /\ gen = "polygon"
    /\ pc = "peel"
    /\ iter > 0
    /\ \E i \in 1..Len(simplices) : ~active_mask[i]
    /\ \E i \in ActiveIdx(simplices, active_mask) :
          BCount(simplices[i], BoundaryNow) = 2

\* the boundary edges of the whole mesh: the convex hull of the sample
HullEdges == get_boundary_edges(simplices, [i \in 1..Len(simplices) |-> TRUE])

\* C28: each deactivation in the peel loop raises the number of boundary
\* edges of the active mesh by exactly one; so when the hull has at most V
\* edges and the loop stops on reaching the target, the boundary has
\* exactly V edges
C28_PeelAddsOneBoundaryEdge ==
    /\ [][(gen = "polygon" /\ pc = "peel" /\ active_mask' # active_mask)
             => Cardinality(get_boundary_edges(simplices', active_mask'))
                  = Cardinality(BoundaryNow) + 1]_vars
    /\ [](gen = "polygon" /\ loop_exit = "target"
             /\ Cardinality(HullEdges) <= Desired(req)
             => /\ current_boundary_len = Desired(req)
                /\ Cardinality(BoundaryNow) = Desired(req))

\* the loop has stopped on reaching the target after peeling from a hull
\* with fewer edges than the target
C28_Witness ==
    /\ gen = "polygon"
    /\ loop_exit = "target"
    /\ iter > 0
    /\ Cardinality(HullEdges) < Desired(req)
    /\ Cardinality(BoundaryNow) = Desired(req)

\* C29: in every response of generate_polygon, points and true_order have
\* the same length, points[i].index = true_order[i] for every i, every point
\* carries a label, and no vertex index occurs twice in true_order
C29_ResponseListsAgree ==
    (gen = "polygon" /\ pc = "done" /\ out.status = 200)
        => LET points == out.response.points
               order == out.response.true_order
           IN /\ Len(points) = Len(order)
              /\ \A i \in 1..Len(order) :
                    /\ points[i].index = order[i]
                    /\ points[i].label
                          = make_labels(Len(order), LabelScheme(req))[i]
              /\ \A i, j \in 1..Len(order) :
                    order[i] = order[j] => i = j

(***************************************************************************)
(* Properties of the maze corridor generator.                              *)
(***************************************************************************)
\* rounding allowance of the fixed-point products, in units of 1/Scale
WallTol == 2

\* allowance for an offset of w along the normal of tangent t: the integer
\* square root shortens the length of t by less than one unit
OffsetTol(t, w) == WallTol + w \div Length(t[1], t[2])

\* o is w times a unit normal of the tangent t, up to rounding
OffsetAlongNormal(o, t, w) ==
    LET d == OffsetTol(t, w)
        o2 == o[1] * o[1] + o[2] * o[2]
    IN /\ o2 >= (w - d) * (w - d)
       /\ o2 <= (w + d) * (w + d)
       /\ Abs(o[1] * t[1] + o[2] * t[2]) <= d * (Abs(t[1]) + Abs(t[2]))

\* C9: the corridor has S + 1 centerline points and two walls of S + 1
\* points; left_wall[i] and right_wall[i] are path[i] moved by +w and -w
\* along a unit normal of the tangent at i, and their midpoint (what
\* compute_funnel_path returns) is path[i]
C9_WallsAlignedToCenterline ==
    (gen = "maze" /\ pc = "done") =>
        /\ Len(out.path) = mz_req.segments + 1
        /\ Len(out.left_wall) = mz_req.segments + 1
        /\ Len(out.right_wall) = mz_req.segments + 1
        /\ \A i \in 1..Len(out.path) :
              LET p == out.path[i]
                  l == out.left_wall[i]
                  r == out.right_wall[i]
                  o == <<l[1] - p[1], l[2] - p[2]>>
              IN /\ r = <<p[1] - o[1], p[2] - o[2]>>
                 /\ LET t == Tangent(out.path, i)
                    IN IF Length(t[1], t[2]) > 0
                          THEN OffsetAlongNormal(o, t, mz_req.width)
                          ELSE o[1] * o[1] + o[2] * o[2]
                                 = mz_req.width * mz_req.width
        /\ compute_funnel_path(out.left_wall, out.right_wall) = out.path

\* a corridor of several segments was returned
C9_Witness ==
    /\ gen = "maze"
    /\ pc = "done"
    /\ mz_req.segments >= 8
    /\ Len(out.left_wall) = mz_req.segments + 1
    /\ compute_funnel_path(out.left_wall, out.right_wall) = out.path

\* C25: after every step of the walk the heading lies in the forward cone
\* [-pi + 0.2, -0.2] and the position in the box [0.2, 0.8] x [0.1, 0.9],
\* and the y coordinate never increases along the centerline
C25_WalkStaysForwardInBox ==
    (gen = "maze" /\ pc \in {"walk", "done"})
        => /\ -Pi + ConeMargin <= angle /\ angle <= -ConeMargin
           /\ XMin <= curr_x /\ curr_x <= XMax
           /\ YMin <= curr_y /\ curr_y <= YMax
           /\ \A i \in 1..Len(mz_path) :
                 /\ XMin <= mz_path[i][1] /\ mz_path[i][1] <= XMax
                 /\ YMin <= mz_path[i][2] /\ mz_path[i][2] <= YMax
           /\ \A i \in 1..(Len(mz_path) - 1) :
                 mz_path[i + 1][2] <= mz_path[i][2]

\* a walk has reached the far side of the box with its heading on the edge
\* of the cone
C25_Witness ==
    /\ gen = "maze"
    /\ pc = "walk"
    /\ Len(mz_path) > 10
    /\ curr_y = YMin
    /\ angle \in {-ConeMargin, -Pi + ConeMargin}


(***************************************************************************)
(* Properties of the convex polygon generator.                             *)
(***************************************************************************)
\* every other vertex lies strictly on one side of every edge
StrictlyConvex(poly) ==
    LET n == Len(poly)
        nxt(i) == IF i = n THEN 1 ELSE i + 1
        side(i, k) == Cross(poly[i], poly[nxt(i)], poly[k])
    IN /\ n >= 3
       /\ \/ \A i \in 1..n : \A k \in 1..n \ {i, nxt(i)} : side(i, k) > 0
          \/ \A i \in 1..n : \A k \in 1..n \ {i, nxt(i)} : side(i, k) < 0

\* C8: generate_convex_polygon(V, seed) returns exactly V vertices that form
\* a strictly convex polygon, from the hull and from the fallback alike
C8_ConvexPolygonOfVVertices ==
    (gen = "convex" /\ pc = "done")
        => /\ Len(out) = cv_req.n_vertices
           /\ StrictlyConvex(out)


(***************************************************************************)
(* Determinism of the generators.                                          *)
(***************************************************************************)
\* C6: for each generator, the second of two calls with the same seed and
\* the same parameters returns what the first returned, whatever draws
\* were made from the generators before each call
C6_SameSeedSameOutput ==
    (round = 2 /\ pc = "done") => out = first_out


(***************************************************************************)
(* Properties of concurrent generator calls.                               *)
(***************************************************************************)
\* C7: a seeded call that runs concurrently with another seeded call, their
\* draws interleaved in any order, returns what it returns when run alone
C7_ConcurrentCallSameAsAlone ==
    \A t \in Threads :
        th_pc[t] = "done"
            => th_points[t]
                 = sample_points_in_box(th_req[t].n, th_req[t].seed, 0).points

(***************************************************************************)
(* Properties of the Hausdorff metrics.                                    *)
(***************************************************************************)
\* C10: on non-empty point lists both metrics are symmetric,
\* hausdorff(A, B) = hausdorff(B, A), and zero on identical inputs,
\* hausdorff(A, A) = 0
C10_HausdorffSymmetricZeroOnSelf ==
    (gen = "metric" /\ pc = "done" /\ set_a # <<>> /\ set_b # <<>>)
        => /\ d_geo = compute_hausdorff_distance(set_b, set_a)
           /\ d_sco = calculate_hausdorff_distance(set_b, set_a)
           /\ set_a = set_b => (d_geo = 0 /\ d_sco = 0)

\* both metrics were applied to two different non-empty lists of two points
\* and to one list twice
C10_Witness ==
    /\ gen = "metric"
    /\ pc = "done"
    /\ Len(set_a) = 2
    /\ Len(set_b) = 2
    /\ d_geo > 0
    /\ d_sco = d_geo
    /\ compute_hausdorff_distance(set_a, set_a) = 0
    /\ directed_hausdorff(set_a, set_b) # directed_hausdorff(set_b, set_a)


\* C11: when either point list is empty, both metrics return the sentinel
\* +infinity, a strictly positive distance, and do not raise
C11_EmptyInputGivesInfinity ==
    (gen = "metric" /\ pc = "done" /\ (set_a = <<>> \/ set_b = <<>>))
        => /\ d_geo = Infinity
           /\ d_sco = Infinity


(***************************************************************************)
(* Properties of the vertex order similarity.                              *)
(***************************************************************************)
\* c is obtained from s by deleting elements
IsSubsequence(c, s) ==
    \E f \in [1..Len(c) -> 1..Len(s)] :
        /\ \A i \in 1..Len(c) : c[i] = s[f[i]]
        /\ \A i \in 1..Len(c) : \A j \in 1..Len(c) : i < j => f[i] < f[j]

\* length of the longest common subsequence, from its definition
LongestCommon(a, b) ==
    LET L == Min(Len(a), Len(b))
        common == {c \in UNION {[1..k -> VertexIndices] : k \in 0..L} :
                      IsSubsequence(c, a) /\ IsSubsequence(c, b)}
    IN CHOOSE k \in 0..L :
          /\ \E c \in common : Len(c) = k
          /\ \A c \in common : Len(c) <= k

SimilarityIsLcsRatio ==
    similarity =
        IF submitted_order = <<>> \/ true_order = <<>> THEN 0
        ELSE (LongestCommon(submitted_order, true_order) * Scale)
                 \div Max(Len(submitted_order), Len(true_order))

\* C12 as stated: the similarity is the length of the longest common
\* subsequence divided by the length of the longer sequence, 0 when either
\* sequence is empty, and 1.0 whenever submitted equals true
C12_LcsRatioOneOnEqual ==
    (gen = "order" /\ pc = "done")
        => /\ SimilarityIsLcsRatio
           /\ submitted_order = true_order => similarity = Scale

\* C12 amended: the similarity is the length of the longest common
\* subsequence divided by the length of the longer sequence, 0 when either
\* sequence is empty, and 1.0 when submitted equals true and is not empty
C12_LcsRatioOneOnEqualNonEmpty ==
    (gen = "order" /\ pc = "done")
        => /\ SimilarityIsLcsRatio
           /\ (submitted_order = true_order /\ true_order # <<>>)
                  => similarity = Scale

\* a submission that shares one of two indices with the true order, in
\* another position
C12_Witness ==
    /\ gen = "order"
    /\ pc = "done"
    /\ Len(true_order) = 2
    /\ Len(submitted_order) = 2
    /\ submitted_order # true_order
    /\ similarity = Scale \div 2
    /\ other_order = true_order
    /\ other_similarity = Scale

\* Levenshtein distance: insertions, deletions and substitutions
EditDistance(a, b) ==
    LET m == Len(a)
        n == Len(b)
        d[i \in 0..m, j \in 0..n] ==
            IF i = 0 THEN j
            ELSE IF j = 0 THEN i
            ELSE Min(Min(d[i - 1, j] + 1, d[i, j - 1] + 1),
                     d[i - 1, j - 1] + (IF a[i] = b[j] THEN 0 ELSE 1))
    IN d[m, n]

\* C13: the similarity is monotonically non-increasing in edit distance: a
\* submission at most as far from the true order as another one has a
\* similarity at least as high
C13_MonotoneInEditDistance ==
    (gen = "order" /\ pc = "done"
        /\ EditDistance(submitted_order, true_order)
              <= EditDistance(other_order, true_order))
        => similarity >= other_similarity


(***************************************************************************)
(* Properties of the lure analysis.                                        *)
(***************************************************************************)
\* the positions i whose pair (submissions[i-1], submissions[i]) is not a
\* next-hop edge of the true order
Mistakes ==
    {i \in 2..Len(submissions) :
        ~\E k \in 1..(Len(true_order) - 1) :
            true_order[k] = submissions[i - 1]
                /\ true_order[k + 1] = submissions[i]}

\* the mistakes along an edge of the Delaunay triangulation of the points
LureMistakes ==
    {i \in Mistakes :
        SortedEdge(submissions[i - 1], submissions[i]) \in DelaunayEdges(task_points)}

DomainsWithData == {d \in Domains : score_out.domain_breakdown[d].n_tests > 0}

\* C15: the composite is the weighted geometric mean of the four domain
\* scores exactly when every domain has a contributing result, and otherwise
\* the arithmetic mean over exactly the domains that have one, whatever
\* their score
C15_GeometricOrMeanOverDomainsWithData ==
    (gen = "composite" /\ pc = "done")
        => IF DomainsWithData = Domains
              THEN score_out.composite_score =
                       [mean |-> "geometric", weights |-> Weights,
                        scores |-> score_out.cognitive_profile]
              ELSE score_out.composite_score =
                       [mean |-> "arithmetic",
                        value |-> IF DomainsWithData = {} THEN 0
                                  ELSE SumOf(score_out.cognitive_profile,
                                             DomainsWithData)
                                          \div Cardinality(DomainsWithData)]

\* the domains of a level, as the routing table states them
RoutedTo(level) ==
    CASE level = 1 -> {"visuospatial"}
      [] level = 2 -> {"memory"}
      [] level = 3 -> {"attention"}
      [] level = 4 -> {"attention", "memory"}
      [] level = 5 -> {"recognition"}
      [] level = 6 -> {"visuospatial"}
      [] level = 7 -> {"memory", "visuospatial"}
      [] OTHER -> {}

\* C16: every result is counted, in n_tests and in the average, in exactly
\* the domains of its level (1 visuospatial, 2 memory, 3 attention,
\* 4 attention and memory, 5 recognition, 6 visuospatial, 7 memory and
\* visuospatial), and results of other levels in no domain
C16_ResultsRoutedByLevel ==
    (gen = "composite" /\ pc = "done")
        => \A d \in Domains :
              LET idx == {i \in 1..Len(results) : d \in RoutedTo(results[i].level)}
              IN /\ score_out.domain_breakdown[d].n_tests = Cardinality(idx)
                 /\ score_out.domain_breakdown[d].score =
                        IF idx = {} THEN 0
                        ELSE (SumOver(results, idx, d) * Scale)
                                 \div Cardinality(idx)

\* C17: on an empty list of results the composite score is 0, the four
\* domain scores are 0 with n_tests 0, and nothing is raised; a domain
\* without contributing results has score 0
C17_EmptyResultsGiveZero ==
    (gen = "composite" /\ pc = "done")
        => /\ results = <<>> =>
                 /\ score_out.composite_score
                        = [mean |-> "arithmetic", value |-> 0]
                 /\ \A d \in Domains :
                       /\ score_out.cognitive_profile[d] = 0
                       /\ score_out.domain_breakdown[d]
                              = [score |-> 0, n_tests |-> 0]
           /\ \A d \in Domains :
                 score_out.domain_breakdown[d].n_tests = 0
                     => score_out.cognitive_profile[d] = 0

\* the aggregator has returned for the empty list
C17_Witness ==
    /\ gen = "composite"
    /\ pc = "done"
    /\ results = <<>>
    /\ score_out.composite_score.value = 0
    /\ score_out.domain_breakdown["memory"].n_tests = 0


(***************************************************************************)
(* Properties of the per-task scoring functions.                           *)
(***************************************************************************)
\* C18: every per-task scoring function returns a composite score in
\* [0, 100] for non-negative counts and times; score_level_3_attention
\* stays in [0, 100] for every mistake count and every correlation, also
\* when the tunnel-vision penalty is applied to a reduced base score
C18_TaskScoreWithinRange ==
    (gen \in {"score_level_1_tmt", "score_level_3_attention",
              "score_level_4_combined"}
        /\ pc = "done" /\ score_out.raised = "none")
        => (0 <= score_out.score /\ score_out.score <= 100 * Scale)

\* the input is degenerate: an empty true order, a submission of at most
\* one click, or an index of no vertex
DegenerateInput ==
    \/ true_order = <<>>
    \/ Len(submissions) <= 1
    \/ \E i \in 1..Len(submissions) : submissions[i] > Len(task_points)
    \/ \E i \in 1..Len(true_order) : true_order[i] > Len(task_points)

\* C19: on degenerate input compute_angular_deviation, score_level_1_tmt
\* and score_accuracy return a value and do not raise
C19_DegenerateInputDoesNotRaise ==
    (gen \in {"compute_angular_deviation", "score_level_1_tmt",
              "score_accuracy"}
        /\ pc = "done" /\ DegenerateInput)
        => score_out.raised = "none"

(***************************************************************************)
(* Properties of compute_alpha_metrics.                                    *)
(***************************************************************************)
\* the vertices that v reaches along edges of E, in at most k hops
RECURSIVE ReachedWithin(_, _, _)
ReachedWithin(E, S, k) ==
    IF k = 0 THEN S
    ELSE ReachedWithin(E,
             S \cup {x \in UNION {{e[1], e[2]} : e \in E} :
                        \E e \in E : x \in {e[1], e[2]}
                                      /\ {e[1], e[2]} \cap S # {}},
             k - 1)

\* the Delaunay edges of length at most w connect all n vertices
ConnectedUpTo(P, w) ==
    ReachedWithin({e \in DelaunayEdges(P) : Dist(P[e[1]], P[e[2]]) <= w},
                  {1}, Len(P)) = 1..Len(P)

\* the longest edge of a minimum spanning tree of the Delaunay graph: the
\* least edge length up to which the graph is connected
LongestMstEdge(P) ==
    LET W == {Dist(P[e[1]], P[e[2]]) : e \in DelaunayEdges(P)}
        C == {w \in W : ConnectedUpTo(P, w)}
    IN CHOOSE w \in C : \A x \in C : w <= x

TimeDiff == Abs(args.detection_time_ms - args.actual_intersection_time_ms)

OtherTimeDiff ==
    Abs(args.other_detection_time_ms - args.other_actual_intersection_time_ms)

\* C21: timing_accuracy depends only on d = |detection - actual|: it is 1.0
\* for d <= 200, below 0.5 for d > 1000, never increases as d grows, and
\* lies in [0, 1]
C21_TimingAccuracyDecaysWithDifference ==
    (gen = "score_level_6_intersection" /\ pc = "done")
        => LET ta == score_out[1].timing_accuracy
               other == score_out[2].timing_accuracy
           IN /\ 0 <= ta /\ ta <= Scale
              /\ TimeDiff <= 200 => ta = Scale
              /\ TimeDiff > 1000 => 2 * ta < Scale
              /\ TimeDiff = OtherTimeDiff => ta = other
              /\ TimeDiff <= OtherTimeDiff => ta >= other

\* two detections, 200 ms and 3000 ms off, have been scored
C21_Witness ==
    /\ gen = "score_level_6_intersection"
    /\ pc = "done"
    /\ TimeDiff = 200
    /\ OtherTimeDiff = 3000
    /\ score_out[1].timing_accuracy = Scale
    /\ 2 * score_out[2].timing_accuracy < Scale


(***************************************************************************)
(* Properties of score_level_5_recognition.                                *)
(***************************************************************************)
\* C22: a correct selection gets correctness 1.0 and a recognition score
\* in [60, 100], above 80 when the reaction time is at most the expected
\* 15 s whatever the confidence; an incorrect selection gets 0
C22_RecognitionScoreByCorrectness ==
    (gen = "grade_level_5" /\ pc = "done")
        => IF args.selected_index = args.target_index
              THEN /\ score_out.correctness = Scale
                   /\ 60 * Scale <= score_out.recognition_score
                   /\ score_out.recognition_score <= 100 * Scale
                   /\ args.reaction_time_ms <= 15000
                         => score_out.recognition_score > 80 * Scale
              ELSE score_out.recognition_score = 0

\* a correct selection at exactly the expected time with the lowest
\* confidence has been graded
C22_Witness ==
    /\ gen = "grade_level_5"
    /\ pc = "done"
    /\ args.selected_index = args.target_index
    /\ args.reaction_time_ms = 15000
    /\ args.confidence_rating = 1
    /\ score_out.recognition_score > 80 * Scale


(***************************************************************************)
(* Termination of the peel generator and of its sampler.                   *)
(***************************************************************************)
\* how far a call of the generator is from returning: the stage it is in
\* and what is left of the budget of the loop it is in
CallStage ==
    CASE pc = "start" -> 5
      [] pc = "peel" -> 4
      [] pc = "extract" -> 3
      [] pc = "chain" -> 2
      [] pc = "return" -> 1
      [] OTHER -> 0

LoopBudget ==
    CASE pc = "peel" -> MaxIter - iter
      [] pc = "chain" -> 2 * Len(pts) - hops
      [] OTHER -> 0

\* C24: a call terminates. The sampler makes at most 100 attempts per point
\* and returns exactly n points; the peel loop makes at most twice the
\* initial triangle count of iterations and the chaining loop at most
\* 2 * |points| hops, and every step of a call of the generator moves it to
\* a later stage or uses up budget of its loop
C24_PeelCallTerminates ==
    /\ [](\A t \in Threads :
             /\ th_attempt[t] < MaxAttempts
             /\ (gen = "sample" /\ th_pc[t] = "done")
                   => Len(th_points[t]) = th_req[t].n)
    /\ [](gen = "polygon"
             => /\ iter <= MaxIter
                /\ hops <= 2 * Len(pts)
                /\ LoopBudget >= 0
                /\ pc = "peel" => Len(pts) = NPoints(req))
    /\ [][(gen = "polygon" /\ round' = round)
             => \/ CallStage' < CallStage
                \/ CallStage' = CallStage /\ LoopBudget' < LoopBudget]_vars
    /\ (gen = "sample" /\ th_pc[1] = "seed") ~> (th_pc[1] = "done")

\* a call has returned after the peel loop deactivated triangles and the
\* chaining loop walked the boundary
C24_Witness ==
    /\ gen = "polygon"
    /\ pc = "done"
    /\ iter > 0
    /\ hops > 0
    /\ chain_end = "closed"


(***************************************************************************)
(* Properties of grade.                                                    *)
(***************************************************************************)
\* C26: a request with a level outside 1..4 and at least one submission is
\* answered without an exception, with a composite score in [0, 100] (100
\* times the blend of accuracy, time and attention)
C26_GenericGradeReturnsBlend ==
    (gen = "grade" /\ pc = "done" /\ args.level \notin 1..4
        /\ Len(args.submissions) >= 1)
        => /\ score_out.raised = "none"
           /\ 0 <= score_out.composite_score
           /\ score_out.composite_score <= 100 * Scale


\* C27: a submission identical to the true order gets pei = 100,
\* accuracy = 1 and lure_susceptibility = 0, whatever indices the vertices
\* carry
C27_TrueOrderSubmissionIsOptimal ==
    (gen = "score_level_1_tmt" /\ pc = "done" /\ submissions = true_order
        /\ true_order # <<>>)
        => /\ score_out.raised = "none"
           /\ score_out.pei = 100 * Scale
           /\ score_out.accuracy = Scale
           /\ score_out.lure_susceptibility = 0
(***************************************************************************)
(* Properties of Level5Manager.get_task.                                   *)
(***************************************************************************)
\* how often a name occurs among the shapes of a list
NameCount(shapes, name) ==
    Cardinality({i \in 1..Len(shapes) : shapes[i].name = name})

\* C30: for a non-empty library with distinct names, the returned shapes
\* hold the target exactly once and min(num_distractors, number of other
\* shapes) distinct distractors from the library, 0 <= target_index <
\* len(shapes), and shapes[target_index].name = target_name
C30_TaskHoldsTargetOnce ==
    (gen = "get_task" /\ pc = "done" /\ args.shapes # <<>>)
        => LET shapes == score_out.shapes
               target_index == score_out.target_index
               n_others == Len(args.shapes) - 1
           IN /\ NameCount(shapes, score_out.target_name) = 1
              /\ Len(shapes) = 1 + Min(args.num_distractors, n_others)
              /\ \A i \in 1..Len(shapes) :
                    /\ NameCount(shapes, shapes[i].name) = 1
                    /\ \E k \in 1..Len(args.shapes) :
                          shapes[i] = args.shapes[k]
              /\ 0 <= target_index
              /\ target_index < Len(shapes)
              /\ shapes[target_index + 1].name = score_out.target_name

\* a task drawn from four shapes with two distractors, the target shuffled
\* to the front
C30_Witness ==
    /\ gen = "get_task"
    /\ pc = "done"
    /\ Len(args.shapes) = 4
    /\ args.num_distractors = 2
    /\ Len(score_out.shapes) = 3
    /\ score_out.target_index = 0
    /\ score_out.target_name = "Tree"



====
